---- MODULE Spec2Model ----
(***************************************************************************)
(* Model of the product-ingestion job pipeline: the Celery tasks           *)
(* import_products_from_csv and bulk_delete_products, the file_uploads     *)
(* job record, the Redis progress cache, the products catalog and the      *)
(* retry controller.                                                       *)
(***************************************************************************)
EXTENDS Integers, Sequences, FiniteSets, TLC

\* ---------------------------------------------------------------- bounds
MaxRows == 3
MaxChunk == 2
MaxCatalog == 2
MaxCrashes == 1
MaxFaults == 1
MaxBatch == 3
MaxWebhooks == 3

\* ------------------------------------------------------ program constants
MAX_TASK_RETRIES == 3
MAX_RETRY_DELAY_SECONDS == 60

Jobs == {"i1", "i2", "d1", "d2"}

Kind(j) == IF j \in {"i1", "i2"} THEN "ingest" ELSE "delete"

\* The sets of jobs submitted together in one behaviour.
Plans == {{"i1"}, {"d1"}, {"i1", "d1"}, {"i1", "i2"}, {"d1", "d2"}}

PENDING == "pending"
PROCESSING == "processing"
COMPLETED == "completed"
FAILED == "failed"

PRODUCT_UPLOAD_COMPLETE == "product_upload_complete"
BULK_DELETE_COMPLETE == "bulk_delete_complete"

NoRecord == [status |-> "absent"]
NoEntry == [status |-> "absent"]

Min(a, b) == IF a <= b THEN a ELSE b
Max(a, b) == IF a >= b THEN a ELSE b

RECURSIVE Pow2(_)
Pow2(n) == IF n = 0 THEN 1 ELSE 2 * Pow2(n - 1)

\* ------------------------------------------------------------- text model
\* A text value is a sequence of one-character strings.
SP == " "

RECURSIVE lstrip(_)
lstrip(s) == IF s # <<>> /\ Head(s) = SP THEN lstrip(Tail(s)) ELSE s

RECURSIVE rstrip(_)
rstrip(s) ==
  IF s # <<>> /\ s[Len(s)] = SP THEN rstrip(SubSeq(s, 1, Len(s) - 1)) ELSE s

\* Variant: fields are not trimmed.
strip_None(s) == s

strip(s) == rstrip(lstrip(s))

lowerChar(c) ==
  IF c = "S" THEN "s" ELSE IF c = "T" THEN "t"
  ELSE IF c = "C" THEN "c" ELSE IF c = "V" THEN "v"
  ELSE IF c = "N" THEN "n" ELSE c

lower(s) == [i \in 1..Len(s) |-> lowerChar(s[i])]

endswith(s, suffix) ==
  /\ Len(s) >= Len(suffix)
  /\ SubSeq(s, Len(s) - Len(suffix) + 1, Len(s)) = suffix

\* ------------------------------------------ CSVImportService validation
NameColumn == <<"n", "a", "m", "e">>
SkuColumn == <<"s", "k", "u">>
DescriptionColumn == <<"d", "e", "s", "c", "r", "i", "p", "t", "i", "o", "n">>
REQUIRED_COLUMNS == {NameColumn, SkuColumn, DescriptionColumn}

\* _validate_file_extension: `not filename or not filename.lower().endswith(".csv")`.
validate_file_extension(filename) ==
  IF ~filename.present \/ filename.name = <<>>
       \/ ~endswith(lower(filename.name), <<".", "c", "s", "v">>)
    THEN "Only CSV files are supported."
    ELSE "ok"

\* _validate_csv_columns on the first line of the upload: no bytes, bytes
\* that do not decode, or the decoded list of column names.
validate_csv_columns(header) ==
  IF header.kind = "empty" THEN "CSV file does not contain a header row."
  ELSE IF header.kind = "undecodable" THEN "CSV file must be UTF-8 encoded."
  ELSE IF header.columns = <<>> THEN "CSV file does not contain a header row."
  ELSE LET normalized_columns ==
             {lower(strip(header.columns[i])) : i \in 1..Len(header.columns)}
       IN IF REQUIRED_COLUMNS \ normalized_columns # {}
            THEN "CSV file is missing required columns"
            ELSE "ok"

\* The two checks enqueue_import makes first, in its order.
Validation(req) ==
  IF validate_file_extension(req.filename) # "ok"
    THEN validate_file_extension(req.filename)
    ELSE validate_csv_columns(req.header)

Filenames ==
  {[present |-> FALSE, name |-> <<>>],
   [present |-> TRUE, name |-> <<>>],
   [present |-> TRUE, name |-> <<"a", ".", "c", "s", "v">>],
   [present |-> TRUE, name |-> <<"a", ".", "C", "S", "V">>],
   [present |-> TRUE, name |-> <<"a", ".", "t", "x", "t">>],
   [present |-> TRUE, name |-> <<"c", "s", "v">>]}

Headers ==
  {[kind |-> "empty", columns |-> <<>>],
   [kind |-> "undecodable", columns |-> <<>>],
   [kind |-> "text", columns |-> <<>>],
   [kind |-> "text", columns |-> <<NameColumn, SkuColumn, DescriptionColumn>>],
   [kind |-> "text",
    columns |-> <<SkuColumn, <<SP, "N", "a", "m", "e", SP>>,
                  DescriptionColumn, <<"x">>>>],
   [kind |-> "text", columns |-> <<NameColumn, SkuColumn>>],
   [kind |-> "text", columns |-> <<NameColumn, <<"s", SP, "k", "u">>,
                                   DescriptionColumn>>]}

Requests == [filename : Filenames, header : Headers]

\* csv.DictReader: a data line becomes a dict keyed by the header's column
\* names as written (a repeated name keeps the last cell); row.get(key, "")
\* is the cell under exactly that key, or "".
row_get(columns, cells, key) ==
  LET hits == {i \in 1..Len(columns) : columns[i] = key}
  IN IF hits = {} THEN <<>>
     ELSE cells[CHOOSE i \in hits : \A k \in hits : k <= i]

\* The three fields _build_product_payload reads from the row of a data line.
DictRow(columns, cells) ==
  [name |-> row_get(columns, cells, NameColumn),
   sku |-> row_get(columns, cells, SkuColumn),
   description |-> row_get(columns, cells, DescriptionColumn)]

\* An upload that passes validation.
PlainRequest ==
  [filename |-> [present |-> TRUE, name |-> <<"a", ".", "c", "s", "v">>],
   header |-> [kind |-> "text",
               columns |-> <<NameColumn, SkuColumn, DescriptionColumn>>]]

\* Data rows a persisted CSV file is made of (csv.DictReader rows).
RowA == [name |-> <<"A">>, sku |-> <<"s">>, description |-> <<"d">>]
RowB == [name |-> <<"B">>, sku |-> <<"S">>, description |-> <<"e">>]
RowC == [name |-> <<"C">>, sku |-> <<SP, "t", SP>>, description |-> <<>>]
RowNoName == [name |-> <<SP>>, sku |-> <<"t">>, description |-> <<"d">>]
RowNoSku == [name |-> <<"D">>, sku |-> <<>>, description |-> <<"d">>]

RowKinds == {RowA, RowB, RowC, RowNoName, RowNoSku}

Files == UNION {[1..n -> RowKinds] : n \in 0..MaxRows}

SmallFiles == {<<>>, <<RowA>>, <<RowA, RowNoSku>>, <<RowA, RowB>>}

PairFile == <<RowA, RowB>>

\* Products that exist in the catalog before any job runs (created through
\* the single-record API, which stores the sku trimmed and lower-cased).
PreProduct(k) ==
  IF k = 1
    THEN [name |-> <<"X">>, sku |-> <<"s">>, description |-> <<>>, active |-> FALSE]
    ELSE [name |-> <<"Y">>, sku |-> [i \in 1..k |-> "p"], description |-> <<>>,
          active |-> TRUE]

InitCatalogs == {{PreProduct(k) : k \in 1..n} : n \in 0..MaxCatalog}

\* --------------------------------------------------- pure task functions
\* _build_product_payload for one row: trimmed fields, active = True.
Product(row) ==
  [name |-> strip(row.name), sku |-> strip(row.sku),
   description |-> strip(row.description), active |-> TRUE]

\* `if not name or not sku: continue`
Dropped(row) == strip(row.name) = <<>> \/ strip(row.sku) = <<>>

\* Indices (in file order) of the rows lo..hi that _build_product_payload keeps.
RECURSIVE build_product_payload(_, _, _)
build_product_payload(f, lo, hi) ==
  IF lo > hi THEN <<>>
  ELSE IF Dropped(f[lo]) THEN build_product_payload(f, lo + 1, hi)
  ELSE <<lo>> \o build_product_payload(f, lo + 1, hi)

\* _iter_chunks: the chunk read after `pos` rows is rows pos+1 .. ChunkEnd.
ChunkEnd(f, pos, size) == Min(pos + size, Len(f))

\* _load_total_records: number of data rows.
load_total_records(f) == Len(f)

\* Variant: the checkpoint advances by the rows read, not the rows upserted.
Advance_ByChunkLen(processed, count, chunkLen, total) ==
  Min(processed + chunkLen, total)

\* Variant: the checkpoint is not capped at the total.
Advance_Uncapped(processed, count, chunkLen, total) == processed + count

\* processed_records = min(processed_records + len(products), total_records)
Advance(processed, count, chunkLen, total) == Min(processed + count, total)

\* Variant: a re-run replays nothing and starts from the first row.
InitialReplay_Restart(processed_records) == 0

\* remaining_replay = processed_records
InitialReplay(processed_records) == processed_records

\* Variant: the exponent is the retry count, not the attempt number.
RetryDelay_FromZero(current_retry) ==
  Min(MAX_RETRY_DELAY_SECONDS, Pow2(current_retry))

\* delay = min(MAX_RETRY_DELAY_SECONDS, 2 ** attempt), attempt = current_retry + 1
RetryDelay(current_retry) == Min(MAX_RETRY_DELAY_SECONDS, Pow2(current_retry + 1))

\* A float percentage kept exact, as the fraction num/den.
Frac(n, d) == [num |-> n, den |-> d]

\* progress = (processed / total) * 100 if total else 0.0
Progress(processed, total) ==
  IF total # 0 THEN Frac(processed * 100, total) ELSE Frac(0, 1)

\* ------------------------------------------------ UploadSyncRepository
NewUpload ==
  [status |-> PENDING, processed_records |-> 0, total_records |-> 0,
   progress |-> Frac(0, 1), completed_at |-> FALSE]

\* Variant: re-entering PROCESSING restarts the checkpoint at 0.
mark_processing_FromZero(u, total_records, initial_processed) ==
  [u EXCEPT !.status = PROCESSING, !.total_records = total_records,
            !.completed_at = FALSE, !.processed_records = 0,
            !.progress = Frac(0, 1)]

\* Variant: re-entering PROCESSING leaves completed_at as it was.
mark_processing_KeepCompletedAt(u, total_records, initial_processed) ==
  IF total_records <= 0
    THEN [u EXCEPT !.status = PROCESSING, !.total_records = total_records,
                   !.processed_records = 0, !.progress = Frac(0, 1)]
    ELSE LET initial_value == Max(0, Min(initial_processed, total_records))
         IN [u EXCEPT !.status = PROCESSING, !.total_records = total_records,
                      !.processed_records = initial_value,
                      !.progress = Frac(initial_value * 100, total_records)]

mark_processing(u, total_records, initial_processed) ==
  IF total_records <= 0
    THEN [u EXCEPT !.status = PROCESSING, !.total_records = total_records,
                   !.completed_at = FALSE, !.processed_records = 0,
                   !.progress = Frac(0, 1)]
    ELSE LET initial_value == Max(0, Min(initial_processed, total_records))
         IN [u EXCEPT !.status = PROCESSING, !.total_records = total_records,
                      !.completed_at = FALSE,
                      !.processed_records = initial_value,
                      !.progress = Frac(initial_value * 100, total_records)]

update_progress(u, processed_records, total_records, progress) ==
  [u EXCEPT !.processed_records = processed_records,
            !.total_records = total_records,
            !.progress = progress,
            !.status = PROCESSING]

\* Variant: completion stores the progress but not the status.
mark_completed_KeepStatus(u) == [u EXCEPT !.progress = Frac(100, 1)]

mark_completed(u) ==
  [u EXCEPT !.status = COMPLETED, !.progress = Frac(100, 1), !.completed_at = TRUE]

\* Variant: marking a job failed also resets its checkpoint.
mark_failed_ResetCounters(u) ==
  [u EXCEPT !.status = FAILED, !.completed_at = TRUE, !.processed_records = 0]

mark_failed(u) == [u EXCEPT !.status = FAILED, !.completed_at = TRUE]

\* ------------------------------------------------ ProductSyncRepository
\* deduped[normalized["sku"]] = normalized: a dict keyed by lower-cased sku;
\* a repeated key keeps its first position and takes the later value.
\* Variant: a repeated key keeps the value of its first occurrence.
DedupeStep_KeepFirst(acc, product) ==
  LET normalized == [product EXCEPT !.sku = lower(product.sku)]
  IN IF \E i \in 1..Len(acc) : acc[i].sku = normalized.sku
       THEN acc
       ELSE Append(acc, normalized)

DedupeStep(acc, product) ==
  LET normalized == [product EXCEPT !.sku = lower(product.sku)]
  IN IF \E i \in 1..Len(acc) : acc[i].sku = normalized.sku
       THEN [i \in 1..Len(acc) |->
               IF acc[i].sku = normalized.sku THEN normalized ELSE acc[i]]
       ELSE Append(acc, normalized)

RECURSIVE Dedupe(_)
Dedupe(products) ==
  IF products = <<>> THEN <<>>
  ELSE DedupeStep(Dedupe(SubSeq(products, 1, Len(products) - 1)),
                  products[Len(products)])

\* INSERT ... ON CONFLICT (lower(sku)) DO UPDATE SET name, description, active.
UpsertOne(cat, p) ==
  IF \E q \in cat : lower(q.sku) = lower(p.sku)
    THEN {IF lower(q.sku) = lower(p.sku)
            THEN [q EXCEPT !.name = p.name, !.description = p.description,
                           !.active = p.active]
            ELSE q : q \in cat}
    ELSE cat \cup {p}

RECURSIVE UpsertAll(_, _)
UpsertAll(cat, payload) ==
  IF payload = <<>> THEN cat
  ELSE UpsertAll(UpsertOne(cat, Head(payload)), Tail(payload))

Reverse(seq) == [i \in 1..Len(seq) |-> seq[Len(seq) + 1 - i]]

\* Variant: a key that is new to the catalog is inserted from its first
\* occurrence in the batch, an existing key is updated from its last.
bulk_upsert_InsertFirst(cat, products) ==
  LET existing(p) == \E q \in cat : lower(q.sku) = lower(p.sku)
      updates == SelectSeq(Dedupe(products), existing)
      inserts == SelectSeq(Dedupe(Reverse(products)), LAMBDA p : ~existing(p))
  IN UpsertAll(UpsertAll(cat, updates), inserts)

bulk_upsert(cat, products) == UpsertAll(cat, Dedupe(products))

\* Variant: the checkpoint advances by the number of rows the upsert wrote.
AdvanceCount_Upserted(products) == Len(Dedupe(products))

\* len(products): the rows of the chunk handed to bulk_upsert.
AdvanceCount(products) == Len(products)

count_all(cat) == Cardinality(cat)

\* delete_chunk removes some `limit` rows (no ordering): the candidate subsets.
delete_chunk(cat, limit) ==
  {S \in SUBSET cat : Cardinality(S) = Min(limit, Cardinality(cat))}

\* ------------------------------------------- CSVImportService.get_status
\* _calculate_progress: `if not total: return 0.0`, else processed/total*100.
calculate_progress(processed, total) ==
  IF total = 0 THEN Frac(0, 1) ELSE Frac(processed * 100, total)

\* round(x, 2) of a non-negative percentage, in hundredths of a percent
\* (nearest hundredth; an exact tie goes to the even one).
Round2(f) ==
  LET q == (f.num * 100) \div f.den
      r == (f.num * 100) % f.den
  IN IF 2 * r < f.den THEN q
     ELSE IF 2 * r > f.den THEN q + 1
     ELSE IF q % 2 = 0 THEN q ELSE q + 1

\* _map_status: mapping.get(status, status)
map_status(status) ==
  IF status = PENDING THEN "pending"
  ELSE IF status = PROCESSING THEN "in_progress"
  ELSE IF status = COMPLETED THEN "completed"
  ELSE IF status = FAILED THEN "failed"
  ELSE status

\* UploadNotFoundError
NotFound == [found |-> FALSE]

Reply(status, processed, total) ==
  [found |-> TRUE, status |-> status, processed_records |-> processed,
   total_records |-> total,
   progress_percentage |-> Round2(calculate_progress(processed, total))]

\* Variant: the durable record is consulted before the cache.
get_status_StoreFirst(c, u) ==
  IF u # NoRecord
    THEN Reply(map_status(u.status), u.processed_records, u.total_records)
  ELSE IF c # NoEntry THEN Reply(c.status, c.processed, c.total)
  ELSE NotFound

\* get_status for a job whose cache entry is c and whose durable row is u:
\* `if cached:` the entry is returned, else the row, else UploadNotFoundError.
get_status(c, u) ==
  IF c # NoEntry THEN Reply(c.status, c.processed, c.total)
  ELSE IF u = NoRecord THEN NotFound
  ELSE Reply(map_status(u.status), u.processed_records, u.total_records)

\* GET /status/{task_id}: UploadNotFoundError becomes 404 NOT_FOUND.
get_upload_status(c, u) ==
  LET r == get_status(c, u)
  IN IF r.found THEN [code |-> 200, body |-> r] ELSE [code |-> 404]

\* ------------------------------------------------------------------ state
VARIABLES
  upload,         \* file_uploads row of each job (NoRecord before submission)
  catalog,        \* committed rows of the products table
  cache,          \* Redis entry upload:{task_id} of each job
  file,           \* data rows of the CSV persisted for the ingestion job
  fileExists,     \* per job: the persisted CSV is still on disk
  CHUNK_SIZE,     \* rows per ingestion chunk
  DELETE_CHUNK_SIZE, \* rows per delete chunk
  sub,            \* position of the submitting request of each job
  msg,            \* broker message of each job: none, queued, running, acked
  retries,        \* task.request.retries of each job's message
  pc,             \* position of the worker inside the task function
  loc,            \* local variables of the running task function
  events,         \* trigger_webhooks tasks handed to the broker
  delays,         \* history: countdown of every retry scheduled, per job
  mutated,        \* history: rows whose upsert/delete by the job is committed
  runFrom,        \* history: durable processed_records when the run started
  runUpserts,     \* history: row indices passed to bulk_upsert in this run
  result,         \* history: how the last finished run ended
  clean,          \* history: no fault or crash has hit the job
  crashes,        \* number of worker crashes so far
  faultsLeft,     \* injected faults still allowed (-1: no limit)
  batch,          \* products handed to a bulk_upsert call made on its own
  applied,        \* how many times that batch has been applied
  before,         \* history: the catalog before the last such call
  webhooks,       \* rows of the webhooks table, in created_at order
  wtask,          \* trigger_webhooks task of each event handed to the broker
  attempts,       \* history: POSTs made per event and webhook
  request         \* the upload of the ingestion request: file name, first line

vars == <<upload, catalog, cache, file, fileExists, CHUNK_SIZE, DELETE_CHUNK_SIZE,
          sub, msg, retries, pc, loc, events, delays, mutated, runFrom,
          runUpserts, result, clean, crashes, faultsLeft, batch, applied,
          before, webhooks, wtask, attempts, request>>

hookVars == <<webhooks, wtask, attempts>>
envVars == <<file, CHUNK_SIZE, DELETE_CHUNK_SIZE, batch, applied, before,
             hookVars, request>>
histVars == <<delays, mutated, runFrom, runUpserts, result, clean>>

Locals0 ==
  [processed_records |-> 0, total_records |-> 0, remaining_replay |-> 0,
   pos |-> 0, current_remaining |-> 0, exc |-> FALSE, cause |-> "none"]

Entry(status, processed, total) ==
  [status |-> status, processed |-> processed, total |-> total]

\* trigger_webhooks tasks: one per event handed to the broker, not yet taken.
WebhookTasks == 1..2

NoTask == [state |-> "new", targets |-> <<>>, k |-> 0, result |-> "none"]

NoAttempts == [w \in 1..MaxWebhooks |-> [count |-> 0, last |-> "none"]]

NoDispatch ==
  /\ wtask = [i \in WebhookTasks |-> NoTask]
  /\ attempts = [i \in WebhookTasks |-> NoAttempts]

\* Nothing submitted, nothing run.
FreshJobs ==
  /\ upload = [j \in Jobs |-> NoRecord]
  /\ cache = [j \in Jobs |-> NoEntry]
  /\ fileExists = [j \in Jobs |-> TRUE]
  /\ msg = [j \in Jobs |-> "none"]
  /\ retries = [j \in Jobs |-> 0]
  /\ pc = [j \in Jobs |-> "idle"]
  /\ loc = [j \in Jobs |-> Locals0]
  /\ events = <<>>
  /\ delays = [j \in Jobs |-> <<>>]
  /\ mutated = [j \in Jobs |-> 0]
  /\ runFrom = [j \in Jobs |-> 0]
  /\ runUpserts = [j \in Jobs |-> <<>>]
  /\ result = [j \in Jobs |-> "none"]
  /\ clean = [j \in Jobs |-> TRUE]
  /\ crashes = 0

\* Everything but the choice of jobs, input, catalog and fault budget.
Fresh ==
  /\ FreshJobs
  /\ batch = <<>>
  /\ applied = 0
  /\ before = {}
  /\ webhooks = <<>>
  /\ NoDispatch
  /\ request = PlainRequest

\* Which jobs are submitted, over which input and catalog, and how many
\* injected faults the behaviour may contain.
Init ==
  /\ \E plan \in Plans :
       /\ sub = [j \in Jobs |-> IF j \in plan THEN "new" ELSE "off"]
       /\ \/ /\ plan = {"i1"}
             /\ file \in SmallFiles /\ faultsLeft = -1
             /\ catalog = {}
          \/ /\ plan = {"d1"}
             /\ file = <<>> /\ faultsLeft = -1
             /\ catalog \in InitCatalogs
          \/ /\ plan = {"i1", "d1"}
             /\ file = PairFile /\ faultsLeft = MaxFaults
             /\ catalog \in {{}, {PreProduct(k) : k \in 1..MaxCatalog}}
          \/ /\ plan = {"i1", "i2"}
             /\ file = PairFile /\ faultsLeft = MaxFaults
             /\ catalog = {}
          \/ /\ plan = {"d1", "d2"}
             /\ file = <<>> /\ faultsLeft = MaxFaults
             /\ catalog \in InitCatalogs
       \* A chunk size beyond the number of rows there are to take behaves
       \* as that number: only the sizes up to it are drawn.
       /\ CHUNK_SIZE \in (IF plan = {"i1", "d1"} THEN {1}
                          ELSE IF \E j \in plan : Kind(j) = "ingest"
                          THEN 1..Min(MaxChunk, Max(Len(file), 1)) ELSE {1})
       /\ DELETE_CHUNK_SIZE \in (IF plan = {"i1", "d1"} THEN {1}
                                 ELSE IF \E j \in plan : Kind(j) = "delete"
                                 THEN 1..Min(MaxChunk,
                                             Max(Cardinality(catalog), 1))
                                 ELSE {1})
  /\ Fresh

\* One ingestion job: over every input of up to MaxRows rows with a fault
\* budget, or over a small input with any number of faults.
InitIngest ==
  /\ sub = [j \in Jobs |-> IF j = "i1" THEN "new" ELSE "off"]
  /\ \/ file \in Files /\ faultsLeft = MaxFaults
     \/ file \in SmallFiles /\ faultsLeft = -1
  /\ catalog = {}
  /\ CHUNK_SIZE \in 1..MaxChunk
  /\ DELETE_CHUNK_SIZE = 1
  /\ Fresh

\* ------------------------------------------------------------- submission
\* Variant: the record is created first and the upload validated after it.
SubmitValidate_AfterCreate(j) ==
  /\ Kind(j) = "ingest" /\ sub[j] = "request"
  /\ upload' = [upload EXCEPT ![j] = NewUpload]
  /\ sub' = [sub EXCEPT ![j] =
               IF Validation(request) = "ok" THEN "created" ELSE "rejected"]
  /\ UNCHANGED <<catalog, cache, fileExists, msg, retries, pc, loc, events,
                 crashes>>
  /\ UNCHANGED envVars
  /\ UNCHANGED histVars /\ UNCHANGED faultsLeft

\* enqueue_import: _validate_file_extension and _validate_csv_columns; a
\* CSVValidationError ends the request (HTTP 400), otherwise the upload is
\* persisted and the record is created next.
SubmitValidate(j) ==
  /\ Kind(j) = "ingest" /\ sub[j] = "request"
  /\ sub' = [sub EXCEPT ![j] =
               IF Validation(request) = "ok" THEN "new" ELSE "rejected"]
  /\ UNCHANGED <<upload, catalog, cache, fileExists, msg, retries, pc, loc,
                 events, crashes>>
  /\ UNCHANGED envVars
  /\ UNCHANGED histVars /\ UNCHANGED faultsLeft

\* enqueue_import / trigger_bulk_delete: create_upload + commit.
SubmitCreate(j) ==
  /\ sub[j] = "new"
  /\ upload' = [upload EXCEPT ![j] = NewUpload]
  /\ sub' = [sub EXCEPT ![j] = "created"]
  /\ UNCHANGED <<catalog, cache, fileExists, msg, retries, pc, loc, events,
                 crashes>>
  /\ UNCHANGED envVars
  /\ UNCHANGED histVars /\ UNCHANGED faultsLeft

\* celery_app.send_task(...) of the job's task.
SubmitSend(j) ==
  /\ sub[j] = "created"
  /\ msg' = [msg EXCEPT ![j] = "queued"]
  /\ sub' = [sub EXCEPT ![j] = IF Kind(j) = "ingest" THEN "sent" ELSE "done"]
  /\ UNCHANGED <<upload, catalog, cache, fileExists, retries, pc, loc, events,
                 crashes>>
  /\ UNCHANGED envVars
  /\ UNCHANGED histVars /\ UNCHANGED faultsLeft

\* _cache_initial_progress, after send_task (ingestion only).
SubmitSeed(j) ==
  /\ sub[j] = "sent"
  /\ cache' = [cache EXCEPT ![j] = Entry(PENDING, 0, 0)]
  /\ sub' = [sub EXCEPT ![j] = "done"]
  /\ UNCHANGED <<upload, catalog, fileExists, msg, retries, pc, loc, events,
                 crashes>>
  /\ UNCHANGED envVars
  /\ UNCHANGED histVars /\ UNCHANGED faultsLeft

\* ------------------------------------------------------------ worker runs
Running(j, label) == msg[j] = "running" /\ pc[j] = label

Goto(j, label) == pc' = [pc EXCEPT ![j] = label]

\* The task function is left: normally ("returned") or by an exception that
\* reaches Celery ("raised").
Leave(j, how) ==
  /\ pc' = [pc EXCEPT ![j] = "ack"]
  /\ result' = [result EXCEPT ![j] = how]

Dirty(j) == clean' = [clean EXCEPT ![j] = FALSE]

\* An injected fault (an exception raised by the store, the cache, the
\* broker or the file system) hits job j.
Fault(j) ==
  /\ faultsLeft # 0
  /\ faultsLeft' = IF faultsLeft > 0 THEN faultsLeft - 1 ELSE faultsLeft
  /\ Dirty(j)

NoFault == UNCHANGED <<clean, faultsLeft>>

\* _update_redis(task_uuid, status, processed, total)
update_redis(j, status, processed, total) ==
  cache' = [cache EXCEPT ![j] = Entry(status, processed, total)]

\* A worker takes the job's message (first delivery, retry or redelivery).
StartRun(j) ==
  /\ msg[j] = "queued"
  /\ msg' = [msg EXCEPT ![j] = "running"]
  /\ Goto(j, IF Kind(j) = "ingest" THEN "i_start" ELSE "d_begin")
  /\ loc' = [loc EXCEPT ![j] = Locals0]
  /\ runFrom' = [runFrom EXCEPT ![j] = upload[j].processed_records]
  /\ runUpserts' = [runUpserts EXCEPT ![j] = <<>>]
  /\ result' = [result EXCEPT ![j] = "none"]
  /\ UNCHANGED <<upload, catalog, cache, fileExists, sub, retries, events,
                 delays, mutated, clean, crashes, faultsLeft>>
  /\ UNCHANGED envVars

\* import_products_from_csv: `if not path.exists()`.
IngestStart(j) ==
  /\ Kind(j) = "ingest" /\ Running(j, "i_start")
  /\ IF fileExists[j]
       THEN Goto(j, "i_prologue") /\ UNCHANGED loc
       ELSE Goto(j, "f_db") /\ loc' = [loc EXCEPT ![j] = Locals0]
  /\ UNCHANGED <<upload, catalog, cache, fileExists, sub, msg, retries, events,
                 crashes>>
  /\ UNCHANGED envVars
  /\ UNCHANGED histVars /\ UNCHANGED faultsLeft

\* Read the job row, resolve the total, mark_processing (committed), then the
\* short-circuit test.
IngestPrologue(j) ==
  /\ Kind(j) = "ingest" /\ Running(j, "i_prologue")
  /\ LET stored_total == upload[j].total_records
         processed_records == upload[j].processed_records
     IN /\ stored_total # 0 \/ fileExists[j]
        /\ LET total_records ==
                 IF stored_total # 0 THEN stored_total
                 ELSE load_total_records(file)
               processed == Min(processed_records, total_records)
           IN /\ upload' = [upload EXCEPT ![j] =
                   mark_processing(@, total_records, processed_records)]
              /\ loc' = [loc EXCEPT ![j].processed_records = processed,
                                    ![j].total_records = total_records,
                                    ![j].remaining_replay = InitialReplay(processed)]
              /\ Goto(j, IF total_records = 0 \/ processed >= total_records
                           THEN "i_short_db" ELSE "i_cache_init")
  /\ UNCHANGED <<catalog, cache, fileExists, sub, msg, retries, events, crashes>>
  /\ UNCHANGED envVars
  /\ UNCHANGED histVars /\ UNCHANGED faultsLeft

\* An exception before the try block (reading the row, counting the rows,
\* mark_processing): the session rolls back and the exception leaves the task.
IngestPrologueFail(j) ==
  /\ Kind(j) = "ingest" /\ Running(j, "i_prologue")
  /\ Leave(j, "raised") /\ Fault(j)
  /\ UNCHANGED <<upload, catalog, cache, fileExists, sub, msg, retries, loc,
                 events, delays, mutated, runFrom, runUpserts, crashes>>
  /\ UNCHANGED envVars

\* _mark_completed of the short-circuit (outside the try block): the commit.
ShortCompleteDb(j) ==
  /\ Kind(j) = "ingest" /\ Running(j, "i_short_db")
  /\ \E ok \in BOOLEAN :
       IF ok
         THEN /\ upload' = [upload EXCEPT ![j] = mark_completed(@)]
              /\ Goto(j, "i_short_cache")
              /\ UNCHANGED result /\ NoFault
         ELSE /\ Leave(j, "raised") /\ Fault(j)
              /\ UNCHANGED upload
  /\ UNCHANGED <<catalog, cache, fileExists, sub, msg, retries, loc, events,
                 delays, mutated, runFrom, runUpserts, crashes>>
  /\ UNCHANGED envVars

\* _mark_completed of the short-circuit: the cache write, then `return`.
ShortCompleteCache(j) ==
  /\ Kind(j) = "ingest" /\ Running(j, "i_short_cache")
  /\ \E ok \in BOOLEAN :
       IF ok
         THEN /\ update_redis(j, "completed", loc[j].processed_records,
                              loc[j].total_records)
              /\ Leave(j, "returned")
              /\ NoFault
         ELSE /\ Leave(j, "raised") /\ Fault(j)
              /\ UNCHANGED cache
  /\ UNCHANGED <<upload, catalog, fileExists, sub, msg, retries, loc, events,
                 delays, mutated, runFrom, runUpserts, crashes>>
  /\ UNCHANGED envVars

\* _update_redis(in_progress) before the try block, then path.open inside it.
IngestCacheInit(j) ==
  /\ Kind(j) = "ingest" /\ Running(j, "i_cache_init")
  /\ \E ok \in BOOLEAN :
       IF ok
         THEN /\ update_redis(j, "in_progress", loc[j].processed_records,
                              loc[j].total_records)
              /\ Goto(j, IF fileExists[j] THEN "i_loop" ELSE "h")
              /\ NoFault
              /\ UNCHANGED result
         ELSE /\ Leave(j, "raised") /\ Fault(j)
              /\ UNCHANGED cache
  /\ UNCHANGED <<upload, catalog, fileExists, sub, msg, retries, loc, events,
                 delays, mutated, runFrom, runUpserts, crashes>>
  /\ UNCHANGED envVars

\* The next chunk of the ingestion loop: the rows kept by
\* _build_product_payload and what is left of them after the replay skip.
ChunkHi(j) == ChunkEnd(file, loc[j].pos, CHUNK_SIZE)
ChunkKept(j) == build_product_payload(file, loc[j].pos + 1, ChunkHi(j))
ChunkSkipped(j) ==
  ChunkKept(j) = <<>> \/ loc[j].remaining_replay >= Len(ChunkKept(j))
ChunkProducts(j) ==
  SubSeq(ChunkKept(j), loc[j].remaining_replay + 1, Len(ChunkKept(j)))

Payload(idx) == [i \in 1..Len(idx) |-> Product(file[idx[i]])]

\* One pass of `for chunk in _iter_chunks(reader)` that commits: either the
\* chunk is skipped (`continue`) or its session commits the upsert and the
\* checkpoint together.
IngestChunk(j) ==
  /\ Kind(j) = "ingest" /\ Running(j, "i_loop")
  /\ loc[j].pos < Len(file)
  /\ IF ChunkSkipped(j)
       THEN /\ loc' = [loc EXCEPT ![j].pos = ChunkHi(j),
                                  ![j].remaining_replay =
                                     IF ChunkKept(j) = <<>> THEN @
                                     ELSE @ - Len(ChunkKept(j))]
            /\ UNCHANGED <<upload, catalog, pc, mutated, runUpserts>>
       ELSE \E products \in {ChunkProducts(j)} :
            \E payload \in {Payload(products)} :
            LET processed == Advance(loc[j].processed_records,
                                     AdvanceCount(payload),
                                     ChunkHi(j) - loc[j].pos,
                                     loc[j].total_records)
            IN /\ catalog' = bulk_upsert(catalog, payload)
               /\ upload' = [upload EXCEPT ![j] =
                    update_progress(@, processed, loc[j].total_records,
                                    Progress(processed, loc[j].total_records))]
               /\ loc' = [loc EXCEPT ![j].pos = ChunkHi(j),
                                     ![j].remaining_replay = 0,
                                     ![j].processed_records = processed]
               /\ mutated' = [mutated EXCEPT ![j] = @ + Len(products)]
               /\ runUpserts' = [runUpserts EXCEPT ![j] = @ \o products]
               /\ Goto(j, "i_loop_cache")
  /\ UNCHANGED <<cache, fileExists, sub, msg, retries, events, delays, runFrom,
                 result, clean, crashes, faultsLeft>>
  /\ UNCHANGED envVars

\* The chunk's session raises: in bulk_upsert (early, before the local
\* counter is advanced) or in update_progress / commit (late, after it).
\* sync_session rolls everything back.
IngestChunkFail(j) ==
  /\ Kind(j) = "ingest" /\ Running(j, "i_loop")
  /\ loc[j].pos < Len(file)
  /\ ~ChunkSkipped(j)
  /\ \E late \in BOOLEAN :
       LET products == ChunkProducts(j)
           processed == Advance(loc[j].processed_records,
                                AdvanceCount(Payload(products)),
                                ChunkHi(j) - loc[j].pos, loc[j].total_records)
       IN /\ loc' = [loc EXCEPT ![j].pos = ChunkHi(j),
                                ![j].remaining_replay = 0,
                                ![j].cause = "chunk",
                                ![j].processed_records =
                                   IF late THEN processed ELSE @]
          /\ runUpserts' = [runUpserts EXCEPT ![j] = @ \o products]
  /\ Goto(j, "h") /\ Fault(j)
  /\ UNCHANGED <<upload, catalog, cache, fileExists, sub, msg, retries, events,
                 delays, mutated, runFrom, result, crashes>>
  /\ UNCHANGED envVars

\* _update_redis(in_progress) after a committed chunk.
LoopCache(j) ==
  /\ Running(j, "i_loop_cache") \/ Running(j, "d_loop_cache")
  /\ \E ok \in BOOLEAN :
       IF ok
         THEN /\ update_redis(j, "in_progress", loc[j].processed_records,
                              loc[j].total_records)
              /\ Goto(j, IF Kind(j) = "ingest" THEN "i_loop" ELSE "d_loop")
              /\ NoFault
         ELSE /\ Goto(j, "h") /\ Fault(j)
              /\ UNCHANGED cache
  /\ UNCHANGED <<upload, catalog, fileExists, sub, msg, retries, loc, events,
                 delays, mutated, runFrom, runUpserts, result, crashes>>
  /\ UNCHANGED envVars

\* The input is exhausted: leave the loop.
IngestLoopEnd(j) ==
  /\ Kind(j) = "ingest" /\ Running(j, "i_loop")
  /\ loc[j].pos >= Len(file)
  /\ Goto(j, "c_db")
  /\ UNCHANGED <<upload, catalog, cache, fileExists, sub, msg, retries, loc,
                 events, crashes>>
  /\ UNCHANGED envVars
  /\ UNCHANGED histVars /\ UNCHANGED faultsLeft

\* _mark_completed inside the try block: the commit of mark_completed.
CompleteDb(j) ==
  /\ Running(j, "c_db")
  /\ \E ok \in BOOLEAN :
       IF ok
         THEN /\ upload' = [upload EXCEPT ![j] = mark_completed(@)]
              /\ Goto(j, "c_cache")
              /\ NoFault
         ELSE /\ Goto(j, "h") /\ Fault(j)
              /\ UNCHANGED upload
  /\ UNCHANGED <<catalog, cache, fileExists, sub, msg, retries, loc, events,
                 delays, mutated, runFrom, runUpserts, result, crashes>>
  /\ UNCHANGED envVars

\* _mark_completed inside the try block: _update_redis(completed).
CompleteCache(j) ==
  /\ Running(j, "c_cache")
  /\ \E ok \in BOOLEAN :
       IF ok
         THEN /\ update_redis(j, "completed", loc[j].processed_records,
                              loc[j].total_records)
              /\ Goto(j, "c_send")
              /\ NoFault
         ELSE /\ Goto(j, "h") /\ Fault(j)
              /\ UNCHANGED cache
  /\ UNCHANGED <<upload, catalog, fileExists, sub, msg, retries, loc, events,
                 delays, mutated, runFrom, runUpserts, result, crashes>>
  /\ UNCHANGED envVars

Event(j, count) ==
  [event_type |-> IF Kind(j) = "ingest" THEN PRODUCT_UPLOAD_COMPLETE
                  ELSE BULK_DELETE_COMPLETE,
   count |-> count, job |-> j]

\* celery_app.send_task(trigger_webhooks, [event_type, payload_data]).
SendEvent(j) ==
  /\ Running(j, "c_send")
  /\ \E ok \in BOOLEAN :
       IF ok
         THEN /\ events' = Append(events, Event(j, loc[j].processed_records))
              /\ Leave(j, "returned")
              /\ NoFault
         ELSE /\ Goto(j, "h") /\ Fault(j)
              /\ UNCHANGED <<events, result>>
  /\ UNCHANGED <<upload, catalog, cache, fileExists, sub, msg, retries, loc,
                 delays, mutated, runFrom, runUpserts, crashes>>
  /\ UNCHANGED envVars

\* -------------------------------------------------------- bulk delete run
\* The first session of bulk_delete_products: count_all, read the job row,
\* resolve the total, mark_processing; on the short-circuit mark_completed is
\* staged too and the session stays open over the cache write.
\* Variant: a resumed run counts from 0 again.
DeleteProcessed_Restart(u) == 0

DeleteProcessed(u) == Min(u.processed_records, u.total_records)

\* Variant: the total is recomputed on every run.
DeleteTotal_Recount(u, remaining_records) ==
  DeleteProcessed(u) + remaining_records

DeleteTotal(u, remaining_records) ==
  IF u.total_records # 0 THEN u.total_records
  ELSE DeleteProcessed(u) + remaining_records

DeleteBegin(j) ==
  /\ Kind(j) = "delete" /\ Running(j, "d_begin")
  /\ LET remaining_records == count_all(catalog)
         processed_records == DeleteProcessed(upload[j])
         total_records == DeleteTotal(upload[j], remaining_records)
     IN /\ loc' = [loc EXCEPT ![j].processed_records = processed_records,
                              ![j].total_records = total_records,
                              ![j].current_remaining = remaining_records]
        /\ IF remaining_records = 0 \/ processed_records >= total_records
             THEN Goto(j, "d_short_cache") /\ UNCHANGED upload
             ELSE /\ upload' = [upload EXCEPT ![j] =
                       mark_processing(@, total_records, processed_records)]
                  /\ Goto(j, "d_cache_init")
  /\ UNCHANGED <<catalog, cache, fileExists, sub, msg, retries, events, crashes>>
  /\ UNCHANGED envVars
  /\ UNCHANGED histVars /\ UNCHANGED faultsLeft

\* The first session raises: before the locals are assigned (count_all, the
\* read) or after (mark_processing, commit).
DeleteBeginFail(j) ==
  /\ Kind(j) = "delete" /\ Running(j, "d_begin")
  /\ \E late \in BOOLEAN :
       LET remaining_records == count_all(catalog)
       IN loc' = [loc EXCEPT ![j].processed_records =
                                IF late THEN DeleteProcessed(upload[j]) ELSE 0,
                             ![j].total_records =
                                IF late
                                  THEN DeleteTotal(upload[j], remaining_records)
                                  ELSE 0]
  /\ Goto(j, "h") /\ Fault(j)
  /\ UNCHANGED <<upload, catalog, cache, fileExists, sub, msg, retries, events,
                 delays, mutated, runFrom, runUpserts, result, crashes>>
  /\ UNCHANGED envVars

\* Short-circuit: _update_redis(completed) inside the still open session.
DeleteShortCache(j) ==
  /\ Kind(j) = "delete" /\ Running(j, "d_short_cache")
  /\ \E ok \in BOOLEAN :
       IF ok
         THEN /\ update_redis(j, "completed", loc[j].processed_records,
                              loc[j].total_records)
              /\ Goto(j, "d_short_commit")
              /\ NoFault
         ELSE /\ Goto(j, "h") /\ Fault(j)
              /\ UNCHANGED cache
  /\ UNCHANGED <<upload, catalog, fileExists, sub, msg, retries, loc, events,
                 delays, mutated, runFrom, runUpserts, result, crashes>>
  /\ UNCHANGED envVars

\* Short-circuit: `return` leaves the session, which commits mark_processing
\* and mark_completed together.
DeleteShortCommit(j) ==
  /\ Kind(j) = "delete" /\ Running(j, "d_short_commit")
  /\ \E ok \in BOOLEAN :
       IF ok
         THEN /\ upload' = [upload EXCEPT ![j] =
                   mark_completed(mark_processing(@, loc[j].total_records,
                                                  loc[j].processed_records))]
              /\ Leave(j, "returned")
              /\ NoFault
         ELSE /\ Goto(j, "h") /\ Fault(j)
              /\ UNCHANGED <<upload, result>>
  /\ UNCHANGED <<catalog, cache, fileExists, sub, msg, retries, loc, events,
                 delays, mutated, runFrom, runUpserts, crashes>>
  /\ UNCHANGED envVars

\* _update_redis(in_progress) before the delete loop.
DeleteCacheInit(j) ==
  /\ Kind(j) = "delete" /\ Running(j, "d_cache_init")
  /\ \E ok \in BOOLEAN :
       IF ok
         THEN /\ update_redis(j, "in_progress", loc[j].processed_records,
                              loc[j].total_records)
              /\ Goto(j, "d_loop")
              /\ NoFault
         ELSE /\ Goto(j, "h") /\ Fault(j)
              /\ UNCHANGED cache
  /\ UNCHANGED <<upload, catalog, fileExists, sub, msg, retries, loc, events,
                 delays, mutated, runFrom, runUpserts, result, crashes>>
  /\ UNCHANGED envVars

\* One pass of `while current_remaining > 0`: delete_chunk; with rows deleted
\* the checkpoint is committed in the same session, with none the session
\* goes on to count_all.
DeleteChunk(j) ==
  /\ Kind(j) = "delete" /\ Running(j, "d_loop")
  /\ loc[j].current_remaining > 0
  /\ \E S \in delete_chunk(catalog, DELETE_CHUNK_SIZE) :
       LET deleted_count == Cardinality(S)
           processed == Advance(loc[j].processed_records, deleted_count,
                                deleted_count, loc[j].total_records)
       IN IF deleted_count = 0
            THEN /\ Goto(j, "d_recount")
                 /\ UNCHANGED <<upload, catalog, loc, mutated>>
            ELSE /\ catalog' = catalog \ S
                 /\ upload' = [upload EXCEPT ![j] =
                      update_progress(@, processed, loc[j].total_records,
                                      Progress(processed, loc[j].total_records))]
                 /\ loc' = [loc EXCEPT ![j].processed_records = processed,
                                       ![j].current_remaining =
                                          Max(@ - deleted_count, 0)]
                 /\ mutated' = [mutated EXCEPT ![j] = @ + deleted_count]
                 /\ Goto(j, "d_loop_cache")
  /\ UNCHANGED <<cache, fileExists, sub, msg, retries, events, delays, runFrom,
                 runUpserts, result, clean, crashes, faultsLeft>>
  /\ UNCHANGED envVars

\* The chunk's session raises: in delete_chunk (early) or, after rows were
\* deleted and the locals advanced, in update_progress / commit (late).
DeleteChunkFail(j) ==
  /\ Kind(j) = "delete" /\ Running(j, "d_loop")
  /\ loc[j].current_remaining > 0
  /\ \E late \in BOOLEAN : \E S \in delete_chunk(catalog, DELETE_CHUNK_SIZE) :
       LET deleted_count == Cardinality(S)
       IN IF late /\ deleted_count > 0
            THEN loc' = [loc EXCEPT ![j].processed_records =
                                       Advance(@, deleted_count, deleted_count,
                                               loc[j].total_records),
                                    ![j].current_remaining =
                                       Max(@ - deleted_count, 0),
                                    ![j].cause = "chunk"]
            ELSE loc' = [loc EXCEPT ![j].cause = "chunk"]
  /\ Goto(j, "h") /\ Fault(j)
  /\ UNCHANGED <<upload, catalog, cache, fileExists, sub, msg, retries, events,
                 delays, mutated, runFrom, runUpserts, result, crashes>>
  /\ UNCHANGED envVars

\* Variant: after an empty delete the remaining count is not re-queried.
DeleteRecount_Blind(j) ==
  /\ Kind(j) = "delete" /\ Running(j, "d_recount")
  /\ Goto(j, "d_loop")
  /\ UNCHANGED <<upload, catalog, cache, fileExists, sub, msg, retries, loc,
                 events, crashes>>
  /\ UNCHANGED envVars
  /\ UNCHANGED histVars /\ UNCHANGED faultsLeft

\* deleted_count == 0: current_remaining = count_all(), then break / continue.
DeleteRecount(j) ==
  /\ Kind(j) = "delete" /\ Running(j, "d_recount")
  /\ loc' = [loc EXCEPT ![j].current_remaining = count_all(catalog)]
  /\ Goto(j, "d_loop")
  /\ UNCHANGED <<upload, catalog, cache, fileExists, sub, msg, retries, events,
                 crashes>>
  /\ UNCHANGED envVars
  /\ UNCHANGED histVars /\ UNCHANGED faultsLeft

\* current_remaining reached 0: leave the loop.
DeleteLoopEnd(j) ==
  /\ Kind(j) = "delete" /\ Running(j, "d_loop")
  /\ loc[j].current_remaining = 0
  /\ Goto(j, "c_db")
  /\ UNCHANGED <<upload, catalog, cache, fileExists, sub, msg, retries, loc,
                 events, crashes>>
  /\ UNCHANGED envVars
  /\ UNCHANGED histVars /\ UNCHANGED faultsLeft

\* ------------------------------------------------------- retry controller
\* Variant: the exhaustion test is off by one.
Exhausted_OffByOne(current_retry) == current_retry > MAX_TASK_RETRIES

\* _schedule_retry: `if current_retry >= max_retries: raise MaxRetriesExceeded`
Exhausted(current_retry) == current_retry >= MAX_TASK_RETRIES

\* except Exception: _schedule_retry(...).  Exhausted: MaxRetriesExceededError
\* is caught and _mark_failed follows.  Otherwise _update_redis(retrying) and
\* task.retry(countdown=delay), which re-queues the message with retries + 1;
\* an exception of the cache write leaves the task instead.
Handler(j) ==
  /\ Running(j, "h")
  /\ IF Exhausted(retries[j])
       THEN /\ Goto(j, "f_db")
            /\ loc' = [loc EXCEPT ![j].exc = TRUE]
            /\ UNCHANGED <<cache, msg, retries, delays, result>>
            /\ NoFault
       ELSE \E ok \in BOOLEAN :
              IF ok
                THEN /\ update_redis(j, "retrying", loc[j].processed_records,
                                     loc[j].total_records)
                     /\ delays' = [delays EXCEPT ![j] =
                                     Append(@, RetryDelay(retries[j]))]
                     /\ retries' = [retries EXCEPT ![j] = @ + 1]
                     /\ msg' = [msg EXCEPT ![j] = "queued"]
                     /\ Goto(j, "idle")
                     /\ result' = [result EXCEPT ![j] = "retry"]
                     /\ loc' = [loc EXCEPT ![j] = Locals0]
                     /\ NoFault
                ELSE /\ Leave(j, "raised") /\ Fault(j)
                     /\ UNCHANGED <<cache, msg, retries, delays, loc>>
  /\ UNCHANGED <<upload, catalog, fileExists, sub, events, mutated, runFrom,
                 runUpserts, crashes>>
  /\ UNCHANGED envVars

\* _mark_failed: the commit of mark_failed (taken to succeed).
FailDb(j) ==
  /\ Running(j, "f_db")
  /\ upload' = [upload EXCEPT ![j] = mark_failed(@)]
  /\ Goto(j, "f_cache")
  /\ UNCHANGED <<catalog, cache, fileExists, sub, msg, retries, loc, events,
                 crashes>>
  /\ UNCHANGED envVars
  /\ UNCHANGED histVars /\ UNCHANGED faultsLeft

\* _mark_failed: _update_redis(failed); then `raise` (retries exhausted) or
\* `return` (upload file not found).
FailCache(j) ==
  /\ Running(j, "f_cache")
  /\ \E ok \in BOOLEAN :
       IF ok
         THEN /\ update_redis(j, "failed", loc[j].processed_records,
                              loc[j].total_records)
              /\ Leave(j, IF loc[j].exc THEN "raised" ELSE "returned")
              /\ NoFault
         ELSE /\ Leave(j, "raised") /\ Fault(j)
              /\ UNCHANGED cache
  /\ UNCHANGED <<upload, catalog, fileExists, sub, msg, retries, loc, events,
                 delays, mutated, runFrom, runUpserts, crashes>>
  /\ UNCHANGED envVars

\* The task function was left (its locals are gone): with acks_late the
\* message is acknowledged now.
Ack(j) ==
  /\ Running(j, "ack")
  /\ msg' = [msg EXCEPT ![j] = "acked"]
  /\ Goto(j, "idle")
  /\ loc' = [loc EXCEPT ![j] = Locals0]
  /\ UNCHANGED <<upload, catalog, cache, fileExists, sub, retries, events,
                 crashes>>
  /\ UNCHANGED envVars
  /\ UNCHANGED histVars /\ UNCHANGED faultsLeft

\* The worker process is lost while the message is unacknowledged: open
\* sessions are rolled back, locals are gone and the broker redelivers the
\* message (acks_late, reject_on_worker_lost) with the same retries.
Crash(j) ==
  /\ msg[j] = "running"
  /\ IF faultsLeft = -1 THEN crashes < MaxCrashes ELSE faultsLeft > 0
  /\ crashes' = crashes + 1
  /\ faultsLeft' = IF faultsLeft > 0 THEN faultsLeft - 1 ELSE faultsLeft
  /\ msg' = [msg EXCEPT ![j] = "queued"]
  /\ Goto(j, "idle")
  /\ loc' = [loc EXCEPT ![j] = Locals0]
  /\ Dirty(j)
  /\ UNCHANGED <<upload, catalog, cache, fileExists, sub, retries, events,
                 delays, mutated, runFrom, runUpserts, result>>
  /\ UNCHANGED envVars

\* The persisted CSV disappears from the upload directory.  The task looks at
\* the file in three places (path.exists, _load_total_records, path.open), so
\* only a disappearance right before one of them is told apart.
FileVanishes(j) ==
  /\ Kind(j) = "ingest" /\ fileExists[j]
  /\ msg[j] = "running" /\ pc[j] \in {"i_start", "i_prologue", "i_cache_init"}
  /\ faultsLeft # 0
  /\ faultsLeft' = IF faultsLeft > 0 THEN faultsLeft - 1 ELSE faultsLeft
  /\ fileExists' = [fileExists EXCEPT ![j] = FALSE]
  /\ Dirty(j)
  /\ UNCHANGED <<upload, catalog, cache, sub, msg, retries, pc, loc, events,
                 delays, mutated, runFrom, runUpserts, result, crashes>>
  /\ UNCHANGED envVars

Next ==
  \E j \in {k \in Jobs : sub[k] # "off"} :
    \/ SubmitCreate(j) \/ SubmitSend(j) \/ SubmitSeed(j)
    \/ StartRun(j)
    \/ IngestStart(j) \/ IngestPrologue(j) \/ IngestPrologueFail(j)
    \/ ShortCompleteDb(j) \/ ShortCompleteCache(j)
    \/ IngestCacheInit(j) \/ IngestChunk(j) \/ IngestChunkFail(j)
    \/ LoopCache(j) \/ IngestLoopEnd(j)
    \/ DeleteBegin(j) \/ DeleteBeginFail(j)
    \/ DeleteShortCache(j) \/ DeleteShortCommit(j) \/ DeleteCacheInit(j)
    \/ DeleteChunk(j) \/ DeleteChunkFail(j) \/ DeleteRecount(j)
    \/ DeleteLoopEnd(j)
    \/ CompleteDb(j) \/ CompleteCache(j) \/ SendEvent(j)
    \/ Handler(j) \/ FailDb(j) \/ FailCache(j)
    \/ Ack(j) \/ Crash(j) \/ FileVanishes(j)

Spec == Init /\ [][Next]_vars

\* The ingestion task alone, its input staying in place.
NextIngest ==
  \E j \in {"i1"} :
    \/ SubmitCreate(j) \/ SubmitSend(j) \/ SubmitSeed(j)
    \/ StartRun(j)
    \/ IngestStart(j) \/ IngestPrologue(j) \/ IngestPrologueFail(j)
    \/ ShortCompleteDb(j) \/ ShortCompleteCache(j)
    \/ IngestCacheInit(j) \/ IngestChunk(j) \/ IngestChunkFail(j)
    \/ LoopCache(j) \/ IngestLoopEnd(j)
    \/ CompleteDb(j) \/ CompleteCache(j) \/ SendEvent(j)
    \/ Handler(j) \/ FailDb(j) \/ FailCache(j)
    \/ Ack(j) \/ Crash(j)

SpecIngest == InitIngest /\ [][NextIngest]_vars

\* ------------------------------------------- bulk_upsert called on its own
\* Product dicts a batch is made of: keys that collide case-insensitively
\* (s/S, t/T), with differing name, description and active.
BatchProducts ==
  {Product(RowA), Product(RowB), Product(RowC),
   [name |-> <<"E">>, sku |-> <<"T">>, description |-> <<"e">>, active |-> FALSE]}

Batches == UNION {[1..n -> BatchProducts] : n \in 0..MaxBatch}

\* Catalogs the call may find: stored skus are lower-case.
UpsertCatalogs ==
  SUBSET {PreProduct(1), PreProduct(2),
          [name |-> <<"Z">>, sku |-> <<"t">>, description |-> <<"z">>,
           active |-> TRUE]}

InitUpsert ==
  /\ sub = [j \in Jobs |-> "off"]
  /\ file = <<>> /\ faultsLeft = 0
  /\ CHUNK_SIZE = 1 /\ DELETE_CHUNK_SIZE = 1
  /\ upload = [j \in Jobs |-> NoRecord]
  /\ cache = [j \in Jobs |-> NoEntry]
  /\ fileExists = [j \in Jobs |-> TRUE]
  /\ msg = [j \in Jobs |-> "none"]
  /\ retries = [j \in Jobs |-> 0]
  /\ pc = [j \in Jobs |-> "idle"]
  /\ loc = [j \in Jobs |-> Locals0]
  /\ events = <<>>
  /\ delays = [j \in Jobs |-> <<>>]
  /\ mutated = [j \in Jobs |-> 0]
  /\ runFrom = [j \in Jobs |-> 0]
  /\ runUpserts = [j \in Jobs |-> <<>>]
  /\ result = [j \in Jobs |-> "none"]
  /\ clean = [j \in Jobs |-> TRUE]
  /\ crashes = 0
  /\ catalog \in UpsertCatalogs
  /\ batch \in Batches
  /\ applied = 0
  /\ before = catalog
  /\ webhooks = <<>>
  /\ NoDispatch
  /\ request = PlainRequest

\* One session that calls bulk_upsert(batch) and commits; the same batch is
\* applied at most twice.
UpsertBatch ==
  /\ applied < 2
  /\ catalog' = bulk_upsert(catalog, batch)
  /\ before' = catalog
  /\ applied' = applied + 1
  /\ UNCHANGED <<upload, cache, file, fileExists, CHUNK_SIZE, DELETE_CHUNK_SIZE,
                 sub, msg, retries, pc, loc, events, delays, mutated, runFrom,
                 runUpserts, result, clean, crashes, faultsLeft, batch,
                 request>>
  /\ UNCHANGED hookVars

NextUpsert == UpsertBatch

SpecUpsert == InitUpsert /\ [][NextUpsert]_vars

\* --------------------------------------------------------- trigger_webhooks
EventTypes == {PRODUCT_UPLOAD_COMPLETE, BULK_DELETE_COMPLETE}

\* What a POST to a subscriber can end in: a response below 400, a response
\* of 400 or more, httpx.TimeoutException, httpx.RequestError, any other
\* exception.
Outcomes == {"ok", "http_error", "timeout", "request_error", "exception"}

\* Contents of the webhooks table; a webhook's id is its position.
WebhookTables ==
  UNION {[1..n -> [event_type : EventTypes, is_active : BOOLEAN]] :
           n \in 0..MaxWebhooks}

\* Variant: inactive webhooks are selected too.
get_active_by_event_type_Inactive(table, event_type) ==
  SelectSeq([w \in 1..Len(table) |-> w],
            LAMBDA w : table[w].event_type = event_type)

\* WebhookSyncRepository.get_active_by_event_type: ids of the rows with that
\* event_type and is_active, ordered by created_at.
get_active_by_event_type(table, event_type) ==
  SelectSeq([w \in 1..Len(table) |-> w],
            LAMBDA w : table[w].event_type = event_type /\ table[w].is_active)

\* A worker takes the trigger_webhooks message of event i (first delivery or
\* redelivery).
WebhookStart(i) ==
  /\ i \in 1..Len(events) /\ wtask[i].state = "new"
  /\ wtask' = [wtask EXCEPT ![i].state = "load", ![i].result = "none"]
  /\ UNCHANGED <<upload, catalog, cache, file, fileExists, CHUNK_SIZE,
                 DELETE_CHUNK_SIZE, sub, msg, retries, pc, loc, events, delays,
                 mutated, runFrom, runUpserts, result, clean, crashes,
                 faultsLeft, batch, applied, before, webhooks, attempts,
                 request>>

\* The session that reads the matching webhooks: with none the task returns;
\* an exception of the session is logged and re-raised.
WebhookLoad(i) ==
  /\ wtask[i].state = "load"
  /\ \E ok \in BOOLEAN :
       IF ok
         THEN LET found == get_active_by_event_type(webhooks,
                                                    events[i].event_type)
              IN wtask' = [wtask EXCEPT ![i] =
                   IF found = <<>>
                     THEN [state |-> "ack", targets |-> <<>>, k |-> 0,
                           result |-> "returned"]
                     ELSE [state |-> "post", targets |-> found, k |-> 1,
                           result |-> "none"]]
         ELSE wtask' = [wtask EXCEPT ![i].state = "ack", ![i].result = "raised"]
  /\ UNCHANGED <<upload, catalog, cache, file, fileExists, CHUNK_SIZE,
                 DELETE_CHUNK_SIZE, sub, msg, retries, pc, loc, events, delays,
                 mutated, runFrom, runUpserts, result, clean, crashes,
                 faultsLeft, batch, applied, before, webhooks, attempts,
                 request>>

\* Variant: a failed delivery marks the job of the event FAILED.
WebhookPost_Escalate(i) ==
  /\ wtask[i].state = "post"
  /\ \E outcome \in Outcomes :
       LET w == wtask[i].targets[wtask[i].k]
       IN /\ attempts' = [attempts EXCEPT ![i][w] =
                            [count |-> @.count + 1, last |-> outcome]]
          /\ upload' = IF outcome = "ok" THEN upload
                       ELSE [upload EXCEPT ![events[i].job] = mark_failed(@)]
          /\ wtask' = [wtask EXCEPT ![i] =
                 IF @.k = Len(@.targets)
                   THEN [@ EXCEPT !.state = "ack", !.result = "returned"]
                   ELSE [@ EXCEPT !.k = @ + 1]]
  /\ UNCHANGED <<catalog, cache, file, fileExists, CHUNK_SIZE,
                 DELETE_CHUNK_SIZE, sub, msg, retries, pc, loc, events, delays,
                 mutated, runFrom, runUpserts, result, clean, crashes,
                 faultsLeft, batch, applied, before, webhooks, request>>

\* One pass of `for webhook in webhooks`: the POST and whatever it ends in;
\* every outcome is logged and the loop goes on, after the last webhook the
\* task returns.
WebhookPost(i) ==
  /\ wtask[i].state = "post"
  /\ \E outcome \in Outcomes :
       LET w == wtask[i].targets[wtask[i].k]
       IN /\ attempts' = [attempts EXCEPT ![i][w] =
                            [count |-> @.count + 1, last |-> outcome]]
          /\ wtask' = [wtask EXCEPT ![i] =
                 IF @.k = Len(@.targets)
                   THEN [@ EXCEPT !.state = "ack", !.result = "returned"]
                   ELSE [@ EXCEPT !.k = @ + 1]]
  /\ UNCHANGED <<upload, catalog, cache, file, fileExists, CHUNK_SIZE,
                 DELETE_CHUNK_SIZE, sub, msg, retries, pc, loc, events, delays,
                 mutated, runFrom, runUpserts, result, clean, crashes,
                 faultsLeft, batch, applied, before, webhooks, request>>

\* The task function was left, by return or by the re-raised exception: the
\* message is acknowledged (task_acks_late); the task has no retry policy.
WebhookAck(i) ==
  /\ wtask[i].state = "ack"
  /\ wtask' = [wtask EXCEPT ![i].state = "done"]
  /\ UNCHANGED <<upload, catalog, cache, file, fileExists, CHUNK_SIZE,
                 DELETE_CHUNK_SIZE, sub, msg, retries, pc, loc, events, delays,
                 mutated, runFrom, runUpserts, result, clean, crashes,
                 faultsLeft, batch, applied, before, webhooks, attempts,
                 request>>

\* The worker is lost while the message is unacknowledged (task_acks_late):
\* the broker delivers the message again.
WebhookCrash(i) ==
  /\ wtask[i].state \in {"load", "post", "ack"}
  /\ crashes < MaxCrashes
  /\ crashes' = crashes + 1
  /\ wtask' = [wtask EXCEPT ![i] = NoTask]
  /\ UNCHANGED <<upload, catalog, cache, file, fileExists, CHUNK_SIZE,
                 DELETE_CHUNK_SIZE, sub, msg, retries, pc, loc, events, delays,
                 mutated, runFrom, runUpserts, result, clean,
                 faultsLeft, batch, applied, before, webhooks, attempts,
                 request>>

\* One job over a one-row input or a one-product catalog, run without
\* faults, and the dispatch of its completion event over every contents of
\* the webhooks table.
InitWebhook ==
  /\ \E j \in {"i1", "d1"} :
       /\ sub = [k \in Jobs |-> IF k = j THEN "new" ELSE "off"]
       /\ catalog = IF j = "d1" THEN {PreProduct(1)} ELSE {}
  /\ file = <<RowA>> /\ faultsLeft = 0
  /\ CHUNK_SIZE = 1 /\ DELETE_CHUNK_SIZE = 1
  /\ FreshJobs
  /\ batch = <<>> /\ applied = 0 /\ before = {}
  /\ webhooks \in WebhookTables
  /\ NoDispatch
  /\ request = PlainRequest

NextWebhook ==
  \/ \E j \in {"i1", "d1"} :
       \/ SubmitCreate(j) \/ SubmitSend(j) \/ SubmitSeed(j)
       \/ StartRun(j)
       \/ IngestStart(j) \/ IngestPrologue(j) \/ IngestCacheInit(j)
       \/ IngestChunk(j) \/ LoopCache(j) \/ IngestLoopEnd(j)
       \/ DeleteBegin(j) \/ DeleteCacheInit(j) \/ DeleteChunk(j)
       \/ DeleteLoopEnd(j)
       \/ CompleteDb(j) \/ CompleteCache(j) \/ SendEvent(j)
       \/ Ack(j)
  \/ \E i \in WebhookTasks :
       \/ WebhookStart(i) \/ WebhookLoad(i) \/ WebhookPost(i)
       \/ WebhookAck(i) \/ WebhookCrash(i)

SpecWebhook == InitWebhook /\ [][NextWebhook]_vars

\* ------------------------------------------ fault-free runs, workers fair
\* Every step job j can take when nothing fails.
JobStep(j) ==
  \/ SubmitCreate(j) \/ SubmitSend(j) \/ SubmitSeed(j)
  \/ StartRun(j)
  \/ IngestStart(j) \/ IngestPrologue(j) \/ IngestCacheInit(j)
  \/ IngestChunk(j) \/ LoopCache(j) \/ IngestLoopEnd(j)
  \/ DeleteBegin(j) \/ DeleteShortCache(j) \/ DeleteShortCommit(j)
  \/ DeleteCacheInit(j) \/ DeleteChunk(j) \/ DeleteRecount(j)
  \/ DeleteLoopEnd(j)
  \/ CompleteDb(j) \/ CompleteCache(j) \/ SendEvent(j)
  \/ Ack(j)

\* A bulk delete alone, next to a second bulk delete, or next to an
\* ingestion that inserts the rows of its input.
InitDelete ==
  /\ \E plan \in {{"d1"}, {"d1", "d2"}, {"i1", "d1"}} :
       sub = [j \in Jobs |-> IF j \in plan THEN "new" ELSE "off"]
  /\ file = <<RowA, RowC>> /\ faultsLeft = 0
  /\ catalog \in InitCatalogs
  /\ CHUNK_SIZE = 1
  /\ DELETE_CHUNK_SIZE \in 1..MaxChunk
  /\ Fresh

NextDelete == \E j \in Jobs : JobStep(j)

\* The broker delivers the message of a submitted bulk delete and the worker
\* that holds the task keeps executing it; nothing is assumed about the pace
\* of the other jobs.
SpecDelete ==
  /\ InitDelete /\ [][NextDelete]_vars
  /\ \A j \in {k \in Jobs : Kind(k) = "delete"} : WF_vars(JobStep(j))

\* --------------------------------- two jobs of one kind on the same data
\* Two ingestions of one file or two bulk deletes, nothing failing; `before`
\* keeps the catalog the jobs start from.
InitPair ==
  /\ \E plan \in {{"i1", "i2"}, {"d1", "d2"}} :
       sub = [j \in Jobs |-> IF j \in plan THEN "new" ELSE "off"]
  /\ file = PairFile /\ faultsLeft = 0
  /\ catalog \in InitCatalogs
  /\ CHUNK_SIZE \in 1..MaxChunk
  /\ DELETE_CHUNK_SIZE \in 1..MaxChunk
  /\ FreshJobs
  /\ batch = <<>> /\ applied = 0 /\ before = catalog
  /\ webhooks = <<>> /\ NoDispatch
  /\ request = PlainRequest

NextPair == \E j \in Jobs : JobStep(j)

\* The broker delivers every queued message and each worker keeps executing
\* the task it holds.
SpecPair ==
  InitPair /\ [][NextPair]_vars /\ \A j \in Jobs : WF_vars(JobStep(j))

\* ----------------------------------------- the ingestion request, checked
\* One upload request, of any file name and first line, and the fault-free
\* run of the job it creates when it is accepted.
InitSubmit ==
  /\ sub = [j \in Jobs |-> IF j = "i1" THEN "request" ELSE "off"]
  /\ file \in {<<>>, <<RowA>>}
  /\ faultsLeft = 0
  /\ catalog \in {{}, {PreProduct(1)}}
  /\ CHUNK_SIZE = 1 /\ DELETE_CHUNK_SIZE = 1
  /\ FreshJobs
  /\ batch = <<>> /\ applied = 0 /\ before = {}
  /\ webhooks = <<>> /\ NoDispatch
  /\ request \in Requests

NextSubmit ==
  \E j \in Jobs :
    \/ SubmitValidate(j)
    \/ SubmitCreate(j) \/ SubmitSend(j) \/ SubmitSeed(j)
    \/ StartRun(j)
    \/ IngestStart(j) \/ IngestPrologue(j)
    \/ ShortCompleteDb(j) \/ ShortCompleteCache(j)
    \/ IngestCacheInit(j) \/ IngestChunk(j) \/ LoopCache(j)
    \/ IngestLoopEnd(j)
    \/ CompleteDb(j) \/ CompleteCache(j) \/ SendEvent(j)
    \/ Ack(j)

SpecSubmit == InitSubmit /\ [][NextSubmit]_vars

\* ------------------------------------- runs in which only cache writes fail
\* One job; the store and the file never fail and no worker is lost, but up to
\* MaxFaults of the job's _update_redis calls raise.  `before` keeps the
\* catalog the job starts from.
InitCacheFault ==
  /\ \E j \in {"i1", "d1"} :
       sub = [k \in Jobs |-> IF k = j THEN "new" ELSE "off"]
  /\ file \in SmallFiles
  /\ faultsLeft = MaxFaults
  /\ catalog \in InitCatalogs
  /\ CHUNK_SIZE \in 1..MaxChunk
  /\ DELETE_CHUNK_SIZE \in 1..MaxChunk
  /\ FreshJobs
  /\ batch = <<>> /\ applied = 0 /\ before = catalog
  /\ webhooks = <<>> /\ NoDispatch
  /\ request = PlainRequest

\* With at most MaxFaults < MAX_TASK_RETRIES failures the retries are never
\* exhausted, so _mark_failed is not part of these runs.
\* The steps that write the cache (or, in Handler, write it before
\* task.retry) may fail; the commits and send_task calls take their
\* successful branch only.
NextCacheFault ==
  \E j \in Jobs :
    \/ SubmitCreate(j) \/ SubmitSend(j) \/ SubmitSeed(j)
    \/ StartRun(j)
    \/ IngestStart(j) \/ IngestPrologue(j)
    \/ ShortCompleteDb(j) /\ faultsLeft' = faultsLeft
    \/ ShortCompleteCache(j)
    \/ IngestCacheInit(j) \/ IngestChunk(j) \/ LoopCache(j)
    \/ IngestLoopEnd(j)
    \/ DeleteBegin(j) \/ DeleteShortCache(j)
    \/ DeleteShortCommit(j) /\ faultsLeft' = faultsLeft
    \/ DeleteCacheInit(j) \/ DeleteChunk(j) \/ DeleteLoopEnd(j)
    \/ CompleteDb(j) /\ faultsLeft' = faultsLeft
    \/ CompleteCache(j)
    \/ SendEvent(j) /\ faultsLeft' = faultsLeft
    \/ Handler(j)
    \/ Ack(j)

SpecCacheFault == InitCacheFault /\ [][NextCacheFault]_vars

\* ------------------------------------- runs in which only the input is lost
\* One ingestion whose persisted CSV may disappear; the store, the cache and
\* the broker never fail and no worker is lost.
InitVanish ==
  /\ sub = [j \in Jobs |-> IF j = "i1" THEN "new" ELSE "off"]
  /\ file \in SmallFiles
  /\ faultsLeft = MaxFaults + 1
  /\ catalog \in InitCatalogs
  /\ CHUNK_SIZE \in 1..MaxChunk
  /\ DELETE_CHUNK_SIZE = 1
  /\ Fresh

\* The only exception before the try block is the one _load_total_records
\* raises on the missing file; path.open inside the try block raises in
\* IngestCacheInit; every commit, cache write and send_task succeeds.
NextVanish ==
  \E j \in Jobs :
    \/ SubmitCreate(j) \/ SubmitSend(j) \/ SubmitSeed(j)
    \/ StartRun(j)
    \/ FileVanishes(j)
    \/ IngestStart(j) \/ IngestPrologue(j)
    \/ IngestPrologueFail(j) /\ ~fileExists[j] /\ upload[j].total_records = 0
    \/ ShortCompleteDb(j) /\ faultsLeft' = faultsLeft
    \/ ShortCompleteCache(j) /\ faultsLeft' = faultsLeft
    \/ IngestCacheInit(j) /\ faultsLeft' = faultsLeft
    \/ IngestChunk(j)
    \/ LoopCache(j) /\ faultsLeft' = faultsLeft
    \/ IngestLoopEnd(j)
    \/ CompleteDb(j) /\ faultsLeft' = faultsLeft
    \/ CompleteCache(j) /\ faultsLeft' = faultsLeft
    \/ SendEvent(j) /\ faultsLeft' = faultsLeft
    \/ Handler(j) /\ faultsLeft' = faultsLeft
    \/ FailDb(j)
    \/ FailCache(j) /\ faultsLeft' = faultsLeft
    \/ Ack(j)

SpecVanish == InitVanish /\ [][NextVanish]_vars

\* ------------------------------------------- headers spelled differently
\* Ways of writing the header that validation accepts: as required, in
\* another order, in another letter case, padded with spaces.
Spellings ==
  {<<NameColumn, SkuColumn, DescriptionColumn>>,
   <<DescriptionColumn, SkuColumn, NameColumn>>,
   <<<<"N", "a", "m", "e">>, SkuColumn, DescriptionColumn>>,
   <<NameColumn, <<SP, "s", "k", "u">>, DescriptionColumn>>}

SpelledRequests ==
  {[filename |-> PlainRequest.filename,
    header |-> [kind |-> "text", columns |-> c]] : c \in Spellings}

\* The records the upload holds, and the data line that carries record r
\* under a header: each cell is the field its column stands for.
Records == <<RowA, RowC>>

Cell(r, column) ==
  LET key == lower(strip(column))
  IN IF key = NameColumn THEN r.name
     ELSE IF key = SkuColumn THEN r.sku
     ELSE IF key = DescriptionColumn THEN r.description
     ELSE <<"x">>

Line(columns, r) == [i \in 1..Len(columns) |-> Cell(r, columns[i])]

\* One upload of Records under some spelling of the header, validated,
\* submitted and ingested with nothing failing; `file` holds the rows as
\* csv.DictReader hands them to _build_product_payload.
InitHeader ==
  /\ sub = [j \in Jobs |-> IF j = "i1" THEN "request" ELSE "off"]
  /\ request \in SpelledRequests
  /\ file = [i \in 1..Len(Records) |->
               DictRow(request.header.columns,
                       Line(request.header.columns, Records[i]))]
  /\ faultsLeft = 0
  /\ catalog \in InitCatalogs
  /\ CHUNK_SIZE \in 1..MaxChunk
  /\ DELETE_CHUNK_SIZE = 1
  /\ FreshJobs
  /\ batch = <<>> /\ applied = 0 /\ before = catalog
  /\ webhooks = <<>> /\ NoDispatch

NextHeader ==
  \E j \in Jobs :
    \/ SubmitValidate(j)
    \/ SubmitCreate(j) \/ SubmitSend(j) \/ SubmitSeed(j)
    \/ StartRun(j)
    \/ IngestStart(j) \/ IngestPrologue(j) \/ IngestCacheInit(j)
    \/ IngestChunk(j) \/ LoopCache(j) \/ IngestLoopEnd(j)
    \/ CompleteDb(j) \/ CompleteCache(j) \/ SendEvent(j)
    \/ Ack(j)

SpecHeader == InitHeader /\ [][NextHeader]_vars

\* ------------------------------------------- faulty runs, workers fair
\* One job with faults at any step (no limit but the retry cap), worker
\* losses up to MaxCrashes and, for the ingestion, a file that may vanish.
InitLive ==
  /\ \E j \in {"i1", "d1"} :
       sub = [k \in Jobs |-> IF k = j THEN "new" ELSE "off"]
  /\ file \in {<<>>, <<RowA>>, <<RowA, RowNoSku>>}
  /\ faultsLeft = -1
  /\ catalog \in InitCatalogs
  /\ CHUNK_SIZE = 1 /\ DELETE_CHUNK_SIZE = 1
  /\ Fresh

NextLive ==
  \E j \in Jobs :
    \/ SubmitCreate(j) \/ SubmitSend(j) \/ SubmitSeed(j)
    \/ StartRun(j)
    \/ IngestStart(j) \/ IngestPrologue(j) \/ IngestPrologueFail(j)
    \/ ShortCompleteDb(j) \/ ShortCompleteCache(j)
    \/ IngestCacheInit(j) \/ IngestChunk(j) \/ IngestChunkFail(j)
    \/ LoopCache(j) \/ IngestLoopEnd(j)
    \/ DeleteBegin(j) \/ DeleteBeginFail(j)
    \/ DeleteShortCache(j) \/ DeleteShortCommit(j) \/ DeleteCacheInit(j)
    \/ DeleteChunk(j) \/ DeleteChunkFail(j)
    \/ DeleteLoopEnd(j)
    \/ CompleteDb(j) \/ CompleteCache(j) \/ SendEvent(j)
    \/ Handler(j) \/ FailDb(j) \/ FailCache(j)
    \/ Ack(j) \/ Crash(j) \/ FileVanishes(j)

\* Workers keep running and the broker delivers every queued message, a
\* scheduled retry or a redelivery included: while a step can be taken, one
\* is taken.
SpecLive == InitLive /\ [][NextLive]_vars /\ WF_vars(NextLive)

TypeOK ==
  /\ request \in Requests \cup SpelledRequests
  /\ \A j \in Jobs :
       /\ upload[j] = NoRecord \/ upload[j].status \in {PENDING, PROCESSING, COMPLETED, FAILED}
       /\ retries[j] \in 0..MAX_TASK_RETRIES
       /\ msg[j] \in {"none", "queued", "running", "acked"}

\* ================================================================= claims
Submitted(j) == upload[j] # NoRecord

IngestJobs == {j \in Jobs : Kind(j) = "ingest"}

\* C1: the durable processed_records of a job never exceeds the number of
\* rows whose upsert or delete by that job has been committed, whatever
\* faults and crashes hit the job.
C1_CheckpointWithinCommitted ==
  \A j \in Jobs :
    Submitted(j) => upload[j].processed_records <= mutated[j]

\* A job that was hit by a fault or crash holds a positive checkpoint.
C1_Witness ==
  \E j \in Jobs :
    /\ Submitted(j) /\ ~clean[j] /\ crashes > 0
    /\ upload[j].processed_records > 0
    /\ upload[j].processed_records = mutated[j]

\* The rows of the input that survive _build_product_payload, in file order,
\* stated on the raw fields: a field is blank when it holds only spaces.
Blank(text) == \A i \in 1..Len(text) : text[i] = SP

Surviving == SelectSeq([i \in 1..Len(file) |-> i],
                       LAMBDA i : ~Blank(file[i].name) /\ ~Blank(file[i].sku))

\* C2: in a run of an ingestion job that started with durable
\* processed_records = p, the rows passed to bulk_upsert are, in order and
\* once each, the surviving rows after the first p; when the loop has
\* exhausted the input all of them have been passed.
C2_ResumeFromCheckpoint ==
  \A j \in IngestJobs :
    LET p == runFrom[j]
        k == Len(runUpserts[j])
    IN /\ k > 0 => p + k <= Len(Surviving)
       /\ runUpserts[j] = SubSeq(Surviving, p + 1, p + k)
       /\ (msg[j] = "running" /\ pc[j] \in {"c_db", "c_cache", "c_send"})
            => p + k >= Len(Surviving)

\* A re-run that started from a checkpoint 0 < p < total has exhausted the
\* input after upserting the rest.
C2_Witness ==
  \E j \in IngestJobs :
    /\ Submitted(j) /\ pc[j] = "c_db"
    /\ runFrom[j] > 0 /\ runFrom[j] < upload[j].total_records
    /\ Len(runUpserts[j]) > 0

AllowedTransitions ==
  {<<PENDING, PROCESSING>>, <<PROCESSING, COMPLETED>>, <<PROCESSING, FAILED>>}

\* C3: the durable status of a job changes only along PENDING->PROCESSING,
\* PROCESSING->COMPLETED and PROCESSING->FAILED (PROCESSING->PROCESSING being
\* no change).
C3_StatusTransitions ==
  [][\A j \in Jobs :
       Submitted(j) =>
         \/ upload'[j].status = upload[j].status
         \/ <<upload[j].status, upload'[j].status>> \in AllowedTransitions]_vars

\* C4: once the durable total_records of a job is nonzero, no step changes it.
C4_TotalFixed ==
  [][\A j \in Jobs :
       (Submitted(j) /\ upload[j].total_records # 0)
         => upload'[j].total_records = upload[j].total_records]_vars

\* A second run of a job (retry or redelivery) has passed mark_processing
\* with a nonzero stored total.
C4_Witness ==
  \E j \in Jobs :
    /\ Submitted(j) /\ upload[j].total_records # 0
    /\ ~clean[j] /\ runFrom[j] > 0
    /\ msg[j] = "running" /\ pc[j] \in {"i_loop", "d_loop"}

\* C5: 0 <= processed_records <= total_records in every durable job record
\* (so processed_records = 0 when total_records = 0).
C5_ProcessedWithinTotal ==
  \A j \in Jobs :
    Submitted(j) =>
      /\ 0 <= upload[j].processed_records
      /\ upload[j].processed_records <= upload[j].total_records
      /\ (upload[j].total_records = 0 => upload[j].processed_records = 0)

\* A bulk delete removed more rows than its total and its checkpoint stands
\* at the total.
C5_Witness ==
  \E j \in Jobs :
    /\ Submitted(j) /\ Kind(j) = "delete"
    /\ mutated[j] > upload[j].total_records
    /\ upload[j].total_records > 0
    /\ upload[j].processed_records = upload[j].total_records

\* C6: a COMPLETED job has processed_records = total_records.
C6_CompletedMeansAllProcessed ==
  \A j \in Jobs :
    (Submitted(j) /\ upload[j].status = COMPLETED)
      => upload[j].processed_records = upload[j].total_records

\* C7: an ingestion run without faults ends with processed_records equal to
\* the number of data rows minus the rows with a blank name or sku, for every
\* chunk size.
C7_CleanRunCount ==
  \A j \in IngestJobs :
    (Submitted(j) /\ clean[j] /\ upload[j].status = COMPLETED)
      => upload[j].processed_records
           = Len(file) - Cardinality({i \in 1..Len(file) :
                                        Blank(file[i].name) \/ Blank(file[i].sku)})

\* A clean run over several chunks completed with rows dropped.
C7_Witness ==
  \E j \in IngestJobs :
    /\ Submitted(j) /\ clean[j] /\ upload[j].status = COMPLETED
    /\ Len(file) > CHUNK_SIZE
    /\ 0 < upload[j].processed_records
    /\ upload[j].processed_records < Len(file)

\* C8: at most MAX_TASK_RETRIES retries are ever scheduled for a job.
C8_RetriesBounded ==
  \A j \in Jobs :
    /\ Len(delays[j]) <= MAX_TASK_RETRIES
    /\ retries[j] = Len(delays[j])

\* A job with all its retries used fails once more and is on its way to
\* FAILED instead of being re-invoked.
C8_Witness ==
  \E j \in Jobs :
    /\ Len(delays[j]) = MAX_TASK_RETRIES
    /\ msg[j] = "running" /\ pc[j] = "f_db" /\ loc[j].exc

\* C9: the i-th retry of a job is delayed by min(60, 2^i) seconds; the delays
\* of a job never decrease and never exceed 60.
C9_BackoffDelays ==
  \A j \in Jobs : \A i \in 1..Len(delays[j]) :
    /\ delays[j][i] = (IF Pow2(i) < 60 THEN Pow2(i) ELSE 60)
    /\ delays[j][i] <= 60
    /\ i > 1 => delays[j][i - 1] <= delays[j][i]

\* A job has been retried three times.
C9_Witness == \E j \in Jobs : delays[j] = <<2, 4, 8>>

\* C10: when the handler is left after a chunk failure, either the retries
\* were exhausted and the job ends FAILED with completed_at set and the
\* exception raised to Celery, or they were not and the job is re-queued with
\* one more retry and not marked FAILED.
C10_FailOrRetry ==
  [][\A j \in Jobs :
       /\ (pc[j] = "h" /\ loc[j].cause = "chunk" /\ pc'[j] # "h"
           /\ crashes' = crashes /\ ~Exhausted(retries[j]))
            => /\ msg'[j] = "queued" /\ retries'[j] = retries[j] + 1
               /\ upload'[j].status # FAILED
       /\ (pc[j] = "h" /\ loc[j].cause = "chunk" /\ pc'[j] # "h"
           /\ crashes' = crashes /\ Exhausted(retries[j]))
            => pc'[j] = "f_db"
       /\ (pc[j] = "f_cache" /\ loc[j].cause = "chunk" /\ pc'[j] = "ack")
            => /\ upload'[j].status = FAILED /\ upload'[j].completed_at
               /\ result'[j] = "raised"]_vars

\* C11: the step that marks a job FAILED, and every step taken while it is
\* FAILED, leaves the durable processed_records and total_records of the job
\* as they were: a FAILED job holds the counters of its last committed
\* checkpoint.
C11_FailedKeepsCounters ==
  [][\A j \in Jobs :
       (Submitted(j) /\ upload'[j].status = FAILED)
         => /\ upload'[j].processed_records = upload[j].processed_records
            /\ upload'[j].total_records = upload[j].total_records]_vars

\* A job was marked FAILED after some, but not all, of its rows were
\* checkpointed.
C11_Witness ==
  \E j \in Jobs :
    /\ Submitted(j) /\ upload[j].status = FAILED
    /\ 0 < upload[j].processed_records
    /\ upload[j].processed_records < upload[j].total_records
    /\ upload[j].processed_records = mutated[j]

\* C12: get_status answers from the progress-cache entry of the job when
\* there is one, otherwise from the durable job record (PROCESSING shown as
\* in_progress), and is not-found (404) exactly when the job has neither.
C12_CacheThenStore ==
  \A j \in Jobs :
    LET r == get_status(cache[j], upload[j])
    IN /\ cache[j] # NoEntry
            => /\ r.found /\ r.status = cache[j].status
               /\ r.processed_records = cache[j].processed
               /\ r.total_records = cache[j].total
       /\ (cache[j] = NoEntry /\ Submitted(j))
            => /\ r.found
               /\ r.status = (IF upload[j].status = PROCESSING THEN "in_progress"
                              ELSE upload[j].status)
               /\ r.processed_records = upload[j].processed_records
               /\ r.total_records = upload[j].total_records
       /\ ~r.found <=> (cache[j] = NoEntry /\ ~Submitted(j))
       /\ get_upload_status(cache[j], upload[j]).code = 404 <=> ~r.found

\* One job has a cache entry that lags its durable record while another job
\* has a durable record and no cache entry.
C12_Witness ==
  \E j, k \in Jobs :
    /\ Submitted(j) /\ cache[j] # NoEntry
    /\ cache[j].processed # upload[j].processed_records
    /\ Submitted(k) /\ cache[k] = NoEntry /\ upload[k].status = PROCESSING

\* C13: in every reachable state the status get_status returns for a job is
\* one of pending, in_progress, completed, failed.
C13_StatusVocabulary ==
  \A j \in Jobs :
    LET r == get_status(cache[j], upload[j])
    IN r.found => r.status \in {"pending", "in_progress", "completed", "failed"}

\* h hundredths of a percent is processed/total*100 to two decimals (0 when
\* the total is 0).
IsPercentOf(h, processed, total) ==
  IF total = 0 THEN h = 0
  ELSE LET diff == h * total - processed * 10000
       IN 2 * diff <= total /\ -2 * diff <= total

\* C14: the progress percentage get_status reports is processed/total*100
\* of the counters it reports (0 when the total is 0), from the cache and
\* from the durable record alike, and the progress stored in the durable
\* record agrees with its processed_records/total_records.
C14_ProgressDerived ==
  \A j \in Jobs :
    LET r == get_status(cache[j], upload[j])
    IN /\ r.found => IsPercentOf(r.progress_percentage, r.processed_records,
                                 r.total_records)
       /\ Submitted(j)
            => LET u == upload[j]
               IN IF u.total_records = 0 THEN u.progress.num = 0
                  ELSE u.progress.num * u.total_records
                         = u.processed_records * 100 * u.progress.den

\* processed/total of record u is at most that of record v (0 for a total
\* of 0).
DerivedLeq(u, v) ==
  IF u.total_records = 0 THEN TRUE
  ELSE IF v.total_records = 0 THEN u.processed_records = 0
  ELSE u.processed_records * v.total_records
         <= v.processed_records * u.total_records

\* C15: no step lowers the percentage processed_records/total_records of a
\* job's durable record, whether the step is a checkpoint of the first run
\* or of a run after a retry or redelivery.
C15_ProgressMonotone ==
  [][\A j \in Jobs : Submitted(j) => DerivedLeq(upload[j], upload'[j])]_vars

\* A run that resumed from a positive checkpoint has committed a further
\* checkpoint.
C15_Witness ==
  \E j \in Jobs :
    /\ Submitted(j) /\ ~clean[j]
    /\ runFrom[j] > 0 /\ upload[j].processed_records > runFrom[j]

\* C16: get_status reports a progress percentage of exactly 100 only with
\* status completed, never with pending, in_progress, retrying or failed.
C16_HundredOnlyCompleted ==
  \A j \in Jobs :
    LET r == get_status(cache[j], upload[j])
    IN (r.found /\ r.progress_percentage = 10000) => r.status = "completed"

\* C17: once a job is durably FAILED and its task has ended, get_status
\* returns the processed_records and total_records of the durable record.
C17_FailedReadsCheckpoint ==
  \A j \in Jobs :
    (Submitted(j) /\ upload[j].status = FAILED /\ msg[j] = "acked")
      => LET r == get_status(cache[j], upload[j])
         IN /\ r.found
            /\ r.processed_records = upload[j].processed_records
            /\ r.total_records = upload[j].total_records

\* C18: bulk_upsert is idempotent: applying a batch a second time leaves the
\* catalog (key, name, description and active of every row) as the first
\* application left it, for every catalog and every batch.
C18_UpsertIdempotent ==
  [][(applied = 1 /\ applied' = 2) => catalog' = catalog]_vars

\* A batch holding two differing products of one key has been applied twice
\* to a catalog that also holds a row of another key.
C18_Witness ==
  /\ applied = 2 /\ before = catalog
  /\ \E i, k \in 1..Len(batch) :
       i < k /\ lower(batch[i].sku) = lower(batch[k].sku) /\ batch[i] # batch[k]
  /\ \E q \in catalog : \A i \in 1..Len(batch) : q.sku # lower(batch[i].sku)

\* Index of the last product of the batch whose lower-cased sku is key.
LastOf(key) ==
  CHOOSE i \in 1..Len(batch) :
    /\ lower(batch[i].sku) = key
    /\ \A k \in (i + 1)..Len(batch) : lower(batch[k].sku) # key

\* C19: after bulk_upsert the catalog holds exactly one product for every
\* lower-cased sku of the batch, with the name, description and active of
\* the last batch product of that key; a key stored before the call keeps
\* its stored sku, and rows of other keys are as before.
C19_LastOccurrenceWins ==
  [][applied' = applied + 1 =>
       /\ \A i \in 1..Len(batch) :
            LET key == lower(batch[i].sku)
                last == batch[LastOf(key)]
                rows == {q \in catalog' : lower(q.sku) = key}
            IN /\ Cardinality(rows) = 1
               /\ \A q \in rows :
                    /\ q.name = last.name
                    /\ q.description = last.description
                    /\ q.active = last.active
                    /\ \A q0 \in catalog : lower(q0.sku) = key => q.sku = q0.sku
       /\ \A q \in catalog' :
            (\A i \in 1..Len(batch) : lower(q.sku) # lower(batch[i].sku))
              => q \in catalog
       /\ \A q \in catalog :
            (\A i \in 1..Len(batch) : lower(q.sku) # lower(batch[i].sku))
              => q \in catalog']_vars

\* A batch with two differing products of a key that was already stored has
\* been applied once and replaced the stored values.
C19_Witness ==
  /\ applied = 1 /\ before # catalog
  /\ \E i, k \in 1..Len(batch) :
       /\ i < k /\ lower(batch[i].sku) = lower(batch[k].sku)
       /\ batch[i].name # batch[k].name
       /\ \E q0 \in before : lower(q0.sku) = lower(batch[i].sku)
       /\ \E q \in catalog : q.name = batch[k].name /\ q.sku = lower(batch[k].sku)

\* Number of surviving rows among rows lo..hi of the input.
SurvivingIn(lo, hi) ==
  Cardinality({i \in lo..hi : ~Blank(file[i].name) /\ ~Blank(file[i].sku)})

\* C20: a committed ingestion chunk advances the durable processed_records
\* by the number of its surviving rows that were not replayed (capped at
\* total_records), however many of them share a key; and the ingestion of
\* (A,s), (B,S), (C," t ") ends with 2 catalog products, the key s holding
\* B, and processed_records = total_records = 3.
C20_AdvanceByInputRows ==
  [][\A j \in IngestJobs :
       /\ (pc[j] = "i_loop" /\ pc'[j] = "i_loop_cache")
            => LET hi == ChunkEnd(file, loc[j].pos, CHUNK_SIZE)
                   done == SurvivingIn(1, loc[j].pos)
                   k == SurvivingIn(1, hi)
                          - Max(done, upload[j].processed_records)
               IN upload'[j].processed_records
                    = Min(upload[j].processed_records + k,
                          upload[j].total_records)
       /\ (file = <<RowA, RowB, RowC>> /\ upload'[j] # NoRecord
           /\ upload'[j].status = COMPLETED)
            => /\ Cardinality(catalog') = 2
               /\ \E q \in catalog' : q.sku = <<"s">> /\ q.name = <<"B">>
               /\ upload'[j].processed_records = 3
               /\ upload'[j].total_records = 3]_vars

\* The three-row input was ingested in chunks of two, its first chunk holding
\* two rows of one key, and the job is COMPLETED.
C20_Witness ==
  \E j \in IngestJobs :
    /\ file = <<RowA, RowB, RowC>> /\ CHUNK_SIZE = 2
    /\ Submitted(j) /\ upload[j].status = COMPLETED
    /\ upload[j].processed_records = 3 /\ Cardinality(catalog) = 2

DeleteJobs == {j \in Jobs : Kind(j) = "delete"}

EventsOf(j) == {i \in 1..Len(events) : events[i].job = j}

\* C21: a bulk-delete job whose fault-free run found the catalog empty ends
\* COMPLETED with processed_records = total_records = 0 and has handed a
\* bulk_delete_complete event with deleted_count 0 to the dispatcher.
C21_EmptyDeleteFiresEvent ==
  \A j \in DeleteJobs :
    (Submitted(j) /\ clean[j] /\ msg[j] = "acked" /\ result[j] = "returned"
     /\ upload[j].total_records = 0)
      => /\ upload[j].status = COMPLETED
         /\ upload[j].processed_records = 0
         /\ \E i \in EventsOf(j) :
              /\ events[i].event_type = BULK_DELETE_COMPLETE
              /\ events[i].count = 0

\* C22: an ingestion job that a fault-free run left COMPLETED, through the
\* loop or through the short-circuit, has handed a product_upload_complete
\* event to the dispatcher whose total_products is the job's final
\* processed_records.
C22_IngestCompletionEvent ==
  \A j \in IngestJobs :
    (Submitted(j) /\ clean[j] /\ msg[j] = "acked" /\ result[j] = "returned"
     /\ upload[j].status = COMPLETED)
      => \E i \in EventsOf(j) :
           /\ events[i].event_type = PRODUCT_UPLOAD_COMPLETE
           /\ events[i].count = upload[j].processed_records

\* Webhook w is active and registered for the type of event i.
Matching(i, w) ==
  /\ w \in 1..Len(webhooks)
  /\ webhooks[w].is_active
  /\ webhooks[w].event_type = events[i].event_type

Returned(i) ==
  i \in 1..Len(events) /\ wtask[i].state \in {"ack", "done"}
    /\ wtask[i].result = "returned"

\* C23: a POST for an event is only ever made to a webhook that is active
\* and registered for that event type, and when the dispatch of an event has
\* returned every such webhook has been POSTed to (none when there is no
\* such webhook).
C23_DispatchTargets ==
  \A i \in WebhookTasks :
    /\ \A w \in 1..MaxWebhooks :
         attempts[i][w].count > 0 => i \in 1..Len(events) /\ Matching(i, w)
    /\ Returned(i)
         => \A w \in 1..Len(webhooks) :
              Matching(i, w) => attempts[i][w].count > 0

\* A dispatch has returned over a table holding a matching active webhook,
\* a matching inactive one and an active one of the other event type.
C23_Witness ==
  \E i \in WebhookTasks :
    /\ Returned(i)
    /\ \E a, b, c \in 1..Len(webhooks) :
         /\ Matching(i, a) /\ attempts[i][a].count = 1
         /\ ~webhooks[b].is_active
         /\ webhooks[b].event_type = events[i].event_type
         /\ webhooks[c].is_active
         /\ webhooks[c].event_type # events[i].event_type
         /\ attempts[i][b].count = 0 /\ attempts[i][c].count = 0

\* C24: for one event, once the loop over the matching webhooks has been
\* left every one of them has been POSTed to, whatever the POSTs to the
\* others ended in, and the task returned normally; and no webhook is ever
\* POSTed to more than once for the event.
C24_IsolatedAtMostOnce ==
  \A i \in WebhookTasks :
    /\ (wtask[i].state \in {"ack", "done"} /\ wtask[i].targets # <<>>)
         => /\ wtask[i].result = "returned"
            /\ \A n \in 1..Len(wtask[i].targets) :
                 attempts[i][wtask[i].targets[n]].count > 0
    /\ \A w \in 1..MaxWebhooks : attempts[i][w].count <= 1

\* C25: no step of trigger_webhooks, whatever its POSTs end in, changes the
\* durable record (status, counters, completed_at) of any job.
C25_DeliveryLeavesJobs ==
  [][wtask' # wtask => upload' = upload]_vars

\* The event of a COMPLETED job was dispatched, a POST failed, and the job
\* is still COMPLETED.
C25_Witness ==
  \E i \in WebhookTasks :
    /\ i \in 1..Len(events) /\ wtask[i].state = "done"
    /\ \E w \in 1..MaxWebhooks :
         attempts[i][w].last \in {"http_error", "timeout", "request_error",
                                  "exception"}
    /\ upload[events[i].job].status = COMPLETED
    /\ upload[events[i].job].completed_at

\* C26: with no faults and the other job inserting or deleting only finitely
\* many rows, a running bulk delete leaves its loop and reaches a terminal
\* status with its task ended.
C26_DeleteTerminates ==
  \A j \in DeleteJobs :
    (msg[j] = "running")
      ~> (upload[j].status \in {COMPLETED, FAILED} /\ msg[j] = "acked")

\* A bulk delete whose chunk found nothing to delete while rows were still
\* expected has re-queried the count and completed below its total.
C26_Witness ==
  \E j \in DeleteJobs :
    /\ Submitted(j) /\ upload[j].status = COMPLETED /\ msg[j] = "acked"
    /\ upload[j].total_records > 0
    /\ upload[j].processed_records < upload[j].total_records

\* The catalog one ingestion of f in chunks of `size` leaves, starting from
\* cat after pos rows.
RECURSIVE SingleIngest(_, _, _, _)
SingleIngest(cat, f, pos, size) ==
  IF pos >= Len(f) THEN cat
  ELSE LET hi == ChunkEnd(f, pos, size)
           kept == build_product_payload(f, pos + 1, hi)
       IN SingleIngest(
            bulk_upsert(cat, [i \in 1..Len(kept) |-> Product(f[kept[i]])]),
            f, hi, size)

\* What one job of the submitted kind leaves of the catalog the jobs start from.
SingleJobCatalog ==
  IF sub["i1"] # "off" THEN SingleIngest(before, file, 0, CHUNK_SIZE) ELSE {}

\* C27: two fault-free jobs of one kind, interleaved in every way, both end
\* COMPLETED with their tasks ended, and the catalog then is and stays the
\* one a single such job leaves.
C27_PairConverges ==
  <>[](/\ \A j \in Jobs : sub[j] # "off" =>
            upload[j].status = COMPLETED /\ msg[j] = "acked"
       /\ catalog = SingleJobCatalog)

\* Both jobs are done and each has changed the catalog in between the
\* other's chunk steps.
C27_Witness ==
  \E j, k \in Jobs :
    /\ j # k /\ Kind(j) = Kind(k)
    /\ upload[j].status = COMPLETED /\ upload[k].status = COMPLETED
    /\ msg[j] = "acked" /\ msg[k] = "acked"
    /\ mutated[j] > 0 /\ mutated[k] > 0
    /\ catalog = SingleJobCatalog

\* C28: a request whose upload fails validation never has a job record, a
\* cache entry or a task message, at any point.
C28_RejectedLeavesNothing ==
  \A j \in IngestJobs :
    (sub[j] # "off" /\ Validation(request) # "ok") =>
      /\ sub[j] \in {"request", "rejected"}
      /\ upload[j] = NoRecord /\ cache[j] = NoEntry /\ msg[j] = "none"
      /\ pc[j] = "idle" /\ events = <<>>

\* A request with a .csv name whose first line lacks a required column has
\* been rejected.
C28_Witness ==
  /\ sub["i1"] = "rejected"
  /\ validate_file_extension(request.filename) = "ok"
  /\ request.header.kind = "text" /\ request.header.columns # <<>>
  /\ upload["i1"] = NoRecord /\ cache["i1"] = NoEntry /\ msg["i1"] = "none"

\* C29: the write of the seed {pending, 0, 0} to a job's cache entry only
\* ever replaces an absent entry, never one the worker has written.
C29_SeedNeverOverwrites ==
  [][\A j \in Jobs :
       (cache'[j] # cache[j] /\ cache'[j] = Entry(PENDING, 0, 0))
         => cache[j] = NoEntry]_vars

\* C30: in runs where nothing but cache writes fails, a job whose task has
\* ended holds the durable outcome of the run without failures: COMPLETED,
\* every input row counted, and the catalog a single such run leaves.
C30_CacheLossHarmless ==
  \A j \in Jobs :
    (Submitted(j) /\ msg[j] = "acked") =>
      /\ upload[j].status = COMPLETED
      /\ upload[j].total_records =
           IF Kind(j) = "ingest" THEN Len(file) ELSE Cardinality(before)
      /\ upload[j].processed_records =
           IF Kind(j) = "ingest" THEN Len(Surviving) ELSE Cardinality(before)
      /\ catalog = SingleJobCatalog

\* C31: an ingestion whose input is gone and whose task has ended holds the
\* durable status FAILED.
C31_VanishedInputFails ==
  \A j \in IngestJobs :
    (Submitted(j) /\ msg[j] = "acked" /\ ~fileExists[j])
      => upload[j].status = FAILED

\* C32: an upload whose header spells the required columns in another case,
\* padding or order is accepted, and its job ends with every record counted
\* and the catalog that the same records leave under the lower-case header.
C32_HeaderSpellingIrrelevant ==
  /\ \A j \in IngestJobs : sub[j] # "rejected"
  /\ \A j \in IngestJobs :
       (Submitted(j) /\ upload[j].status = COMPLETED) =>
         /\ upload[j].processed_records = Len(Records)
         /\ catalog = SingleIngest(before, Records, 0, CHUNK_SIZE)

\* C33: the durable record of a job has completed_at set exactly when its
\* status is COMPLETED or FAILED.
C33_CompletedAtIffTerminal ==
  \A j \in Jobs :
    Submitted(j) =>
      (upload[j].completed_at <=> upload[j].status \in {COMPLETED, FAILED})

\* A job whose completion event was sent is running again (its message was
\* redelivered) and is PROCESSING with completed_at cleared.
C33_Witness ==
  \E j \in Jobs :
    /\ Submitted(j) /\ EventsOf(j) # {}
    /\ msg[j] = "running"
    /\ upload[j].status = PROCESSING /\ ~upload[j].completed_at

\* The only submitted job is j.
Alone(j) == \A k \in Jobs \ {j} : sub[k] = "off"

\* C34: a bulk delete that is the only job and is COMPLETED has emptied the
\* catalog, and its processed_records and total_records both equal the
\* number of rows the catalog held (all of which it deleted), whatever the
\* chunk size, faults, retries and redeliveries in between.
C34_SoloDeleteCountsAll ==
  \A j \in DeleteJobs :
    (Alone(j) /\ Submitted(j) /\ upload[j].status = COMPLETED) =>
      /\ catalog = {}
      /\ upload[j].processed_records = upload[j].total_records
      /\ upload[j].total_records = mutated[j]

\* A bulk delete of several rows completed after a retry or redelivery that
\* resumed it from a checkpoint strictly inside the catalog.
C34_Witness ==
  \E j \in DeleteJobs :
    /\ Alone(j) /\ Submitted(j) /\ upload[j].status = COMPLETED
    /\ msg[j] = "acked" /\ ~clean[j]
    /\ runFrom[j] > 0 /\ runFrom[j] < upload[j].total_records
    /\ upload[j].processed_records = MaxCatalog

\* C35: the step that hands a job's completion event to the dispatcher is
\* taken with the job durably COMPLETED (completed_at set), leaves the record
\* as it is and ends the run by a normal return: not by a retry, not by an
\* exception and not on the way to FAILED.
C35_EventAfterCompleted ==
  [][\A j \in Jobs :
       (Len(events') > Len(events) /\ events'[Len(events')].job = j) =>
         /\ upload[j].status = COMPLETED /\ upload[j].completed_at
         /\ upload'[j] = upload[j]
         /\ msg'[j] = "running" /\ pc'[j] = "ack"
         /\ result'[j] = "returned" /\ retries'[j] = retries[j]]_vars

\* A job that was retried after a failure has handed over its event and is
\* COMPLETED.
C35_Witness ==
  \E j \in Jobs :
    /\ Submitted(j) /\ EventsOf(j) # {} /\ retries[j] > 0
    /\ pc[j] = "ack" /\ result[j] = "returned"
    /\ upload[j].status = COMPLETED

\* C36: no step changes the durable record (status, counters, completed_at)
\* of a job whose status is COMPLETED or FAILED.
C36_TerminalAbsorbing ==
  [][\A j \in Jobs :
       (Submitted(j) /\ upload[j].status \in {COMPLETED, FAILED})
         => upload'[j] = upload[j]]_vars

\* C37: at most one completion event is ever handed to the dispatcher for a
\* job, over all its runs.
C37_EventAtMostOnce ==
  \A j \in Jobs : Cardinality(EventsOf(j)) <= 1

\* C38: every cache entry the worker writes for a job carries a processed
\* value no greater than the job's durable processed_records at that moment.
C38_CacheNotAhead ==
  [][\A j \in Jobs :
       (cache'[j] # cache[j]
        /\ cache'[j].status \in {"in_progress", "retrying", "completed", "failed"})
         => cache'[j].processed <= upload'[j].processed_records]_vars

\* C39: a job whose task message was handed to the broker eventually holds
\* the durable status COMPLETED or FAILED.
C39_EventuallyTerminal ==
  \A j \in Jobs :
    (msg[j] = "queued") ~> (upload[j].status \in {COMPLETED, FAILED})

\* C40: a COMPLETED bulk delete holds as processed_records, and carries as
\* the count of each completion event it emitted, the number of catalog rows
\* its own delete_chunk calls removed, whatever other jobs inserted into or
\* deleted from the catalog meanwhile.
C40_DeleteCountIsOwnRemovals ==
  \A j \in DeleteJobs :
    (Submitted(j) /\ upload[j].status = COMPLETED) =>
      /\ upload[j].processed_records = mutated[j]
      /\ \A i \in EventsOf(j) : events[i].count = mutated[j]
====
